---- MODULE Spec2Model ----
(***************************************************************************)
(* Model of the bubble-sheet grading core of edmcp-bubble:                 *)
(*   - the response decoder   (edmcp_bubble/core/scanner.py)               *)
(*   - the grading engine     (edmcp_bubble/core/grader.py)                *)
(*   - the job orchestrator   (edmcp_bubble/core/grading_manager.py)       *)
(*   - the test store         (edmcp_bubble/core/test_manager.py)          *)
(*                                                                         *)
(* Conventions.                                                            *)
(*   A Python str is a tuple of one-character strings, so that upper(),    *)
(*   strip(), split(","), lstrip("Qq"), int() and join() are computed and  *)
(*   not assumed.  A bubble label is one character.                        *)
(*   A fill score is an integer number of hundredths (35 is 0.35).         *)
(*   A point value or a score is an integer number of thousandths of a     *)
(*   point (1000 is 1.0); a percentage is in hundredths of a percent.      *)
(*   Python None is the value None below.                                  *)
(***************************************************************************)
EXTENDS Integers, Sequences, FiniteSets, TLC

\* ------------------------------------------------------------------------
\* Bounds of the model
\* ------------------------------------------------------------------------
\* pages of a scan
MaxPages == 2
\* sheets stored for the test
MaxSheets == 2
\* connections to the database file, each running one call at a time
MaxCalls == 2
\* ids given out by student_responses
MaxRows == 4
\* JSON arrays in a scan_warnings column
MaxArrays == 3
\* calls begun while another connection runs a call or holds a lock
MaxOverlaps == 1
\* sheets stored for the test while two connections are open
MaxSharedSheets == 1
\* bubbles of a column or question
MaxBubbles == 3

\* ------------------------------------------------------------------------
\* Python values
\* ------------------------------------------------------------------------
None == -1

\* characters in ASCII order; the position is the character's rank
Chars == << " ", ",", "0", "1", "2", "3", "4", "5", "6", "7", "8", "9", "?",
            "A", "B", "C", "D", "E", "O", "Q", "R",
            "a", "b", "c", "d", "q" >>

CharRank(c) == CHOOSE i \in 1..Len(Chars) : Chars[i] = c

Digits == << "0", "1", "2", "3", "4", "5", "6", "7", "8", "9" >>

\* str.upper() and str.lower() on one character
UpperChar(c) ==
    CASE c = "a" -> "A" [] c = "b" -> "B" [] c = "c" -> "C" [] c = "d" -> "D"
      [] c = "q" -> "Q" [] OTHER -> c

Upper(s) == [i \in 1..Len(s) |-> UpperChar(s[i])]

Lower(s) ==
    [i \in 1..Len(s) |->
        CASE s[i] = "A" -> "a" [] s[i] = "B" -> "b" [] s[i] = "C" -> "c"
          [] s[i] = "D" -> "d" [] s[i] = "E" -> "e" [] s[i] = "O" -> "o"
          [] s[i] = "Q" -> "q" [] s[i] = "R" -> "r" [] OTHER -> s[i]]

\* str(n) for a non-negative int
RECURSIVE IntToStr(_)
IntToStr(n) ==
    IF n < 10 THEN << Digits[n + 1] >>
    ELSE IntToStr(n \div 10) \o << Digits[(n % 10) + 1] >>

\* the sentinel student id "ERROR"
ERROR_ID == << "E", "R", "R", "O", "R" >>

\* an operation either returns a value or raises
Ok(v) == [raised |-> FALSE, exc |-> "", value |-> v]

Raise(e) == [raised |-> TRUE, exc |-> e, value |-> None]

\* ------------------------------------------------------------------------
\* scanner.py: layout
\* ------------------------------------------------------------------------
\* BubbleSheetScanner.__init__ defaults, _scan_student_id/_scan_answers default
threshold == 35
relative_threshold_num == 6
relative_threshold_den == 10
min_darkness == 8

\* A layout document is [keys, questions, student_id]: keys are the
\* top-level fields present; a question is [number, bubbles], a column is
\* [digit_index, digit, bubbles] and a bubble is [label, at], `at' being
\* the place on the sheet (x, y, radius) where the bubble is printed.  A
\* column's index is col.get("digit_index") or col.get("digit").
load_layout_guide(doc) ==
    IF ~({"questions", "student_id", "dimensions"} \subseteq doc.keys)
    THEN Raise("KeyError")
    ELSE Ok([questions |-> doc.questions,
             student_id_columns |->
                 [i \in 1..Len(doc.student_id) |->
                     [digit_index |->
                          IF doc.student_id[i].digit_index \notin {None, 0}
                          THEN doc.student_id[i].digit_index
                          ELSE doc.student_id[i].digit,
                      bubbles |-> doc.student_id[i].bubbles]]])

\* ------------------------------------------------------------------------
\* scanner.py: response decoder
\* ------------------------------------------------------------------------
\* sorted(seq, key = digit_index): stable insertion of x behind every
\* element whose key is not larger
RECURSIVE InsertByDigit(_, _)
InsertByDigit(x, s) ==
    IF s = << >> THEN << x >>
    ELSE IF x.digit_index < s[1].digit_index THEN << x >> \o s
    ELSE << s[1] >> \o InsertByDigit(x, Tail(s))

RECURSIVE SortByDigit(_)
SortByDigit(s) ==
    IF s = << >> THEN << >>
    ELSE InsertByDigit(s[Len(s)], SortByDigit(SubSeq(s, 1, Len(s) - 1)))

\* sorted(layout.student_id_columns, key=lambda c: c.digit_index): comparing
\* None with anything is a TypeError; one column alone is never compared
sorted_columns(cols) ==
    IF Len(cols) >= 2 /\ \E i \in 1..Len(cols) : cols[i].digit_index = None
    THEN Raise("TypeError")
    ELSE Ok(SortByDigit(cols))

\* sorted(labels) and ",".join(labels)
RECURSIVE InsertByRank(_, _)
InsertByRank(x, s) ==
    IF s = << >> THEN << x >>
    ELSE IF CharRank(x) < CharRank(s[1]) THEN << x >> \o s
    ELSE << s[1] >> \o InsertByRank(x, Tail(s))

RECURSIVE SortLabels(_)
SortLabels(s) ==
    IF s = << >> THEN << >>
    ELSE InsertByRank(s[Len(s)], SortLabels(SubSeq(s, 1, Len(s) - 1)))

RECURSIVE JoinComma(_)
JoinComma(labels) ==
    IF labels = << >> THEN << >>
    ELSE IF Len(labels) = 1 THEN << labels[1] >>
    ELSE << labels[1], "," >> \o JoinComma(Tail(labels))

\* [(bubble.label, score) for bubble in bubbles]; the fill measured at a
\* bubble is the image's darkness at the bubble's place
BubbleScores(fill, bubbles) ==
    [j \in 1..Len(bubbles) |->
        [label |-> bubbles[j].label, score |-> fill[bubbles[j].at]]]

\* [label for (label, score) in items]
LabelsOf(items) == [i \in 1..Len(items) |-> items[i].label]

\* max(scores, key=score): the first of the highest-scoring items
BestIndex(scores) ==
    CHOOSE i \in 1..Len(scores) :
        /\ \A j \in 1..Len(scores) : scores[j].score <= scores[i].score
        /\ \A j \in 1..(i - 1) : scores[j].score < scores[i].score

\* sorted(all scores, reverse=True)[1] if there are two or more, else 0.0
RivalScore(scores) ==
    IF Len(scores) > 1
    THEN LET b == BestIndex(scores)
             others == {j \in 1..Len(scores) : j # b}
         IN  scores[CHOOSE j \in others :
                        \A k \in others : scores[k].score <= scores[j].score].score
    ELSE 0

Warning(kind, ref) == [kind |-> kind, ref |-> ref]

scan_digit_without_darkness(column_scores, digit_index) ==
    LET hits == LabelsOf(SelectSeq(column_scores, LAMBDA it : it.score >= threshold))
    IN  IF Len(hits) = 1 THEN Ok([digit |-> hits[1], warnings |-> << >>])
        ELSE IF column_scores = << >> THEN Raise("ValueError")
        ELSE LET best == column_scores[BestIndex(column_scores)]
                 rival_score == RivalScore(column_scores)
             IN  IF rival_score * relative_threshold_den
                       >= best.score * relative_threshold_num
                 THEN Ok([digit |-> "?",
                          warnings |-> << Warning("id_ambiguous", digit_index) >>])
                 ELSE Ok([digit |-> best.label, warnings |-> << >>])

\* one pass of the loop of _scan_student_id over a column that accepts the
\* first bubble at or above the absolute threshold whenever there is one
scan_digit_first_hit(column_scores, digit_index, absolute, relative_num, darkness) ==
    LET hits == LabelsOf(SelectSeq(column_scores, LAMBDA it : it.score >= absolute))
    IN  IF Len(hits) >= 1 THEN Ok([digit |-> hits[1], warnings |-> << >>])
        ELSE IF column_scores = << >> THEN Raise("ValueError")
        ELSE LET best == column_scores[BestIndex(column_scores)]
                 rival_score == RivalScore(column_scores)
             IN  IF best.score < darkness
                 THEN Ok([digit |-> "?",
                          warnings |-> << Warning("id_too_light", digit_index) >>])
                 ELSE IF rival_score * relative_threshold_den
                            >= best.score * relative_num
                 THEN Ok([digit |-> "?",
                          warnings |-> << Warning("id_ambiguous", digit_index) >>])
                 ELSE Ok([digit |-> best.label, warnings |-> << >>])

\* one pass of the loop of _scan_student_id over a column, for the values of
\* its parameters threshold, relative_threshold (in tenths) and min_darkness
scan_digit_with(column_scores, digit_index, absolute, relative_num, darkness) ==
    LET hits == LabelsOf(SelectSeq(column_scores, LAMBDA it : it.score >= absolute))
    IN  IF Len(hits) = 1 THEN Ok([digit |-> hits[1], warnings |-> << >>])
        ELSE IF column_scores = << >> THEN Raise("ValueError")
        ELSE LET best == column_scores[BestIndex(column_scores)]
                 rival_score == RivalScore(column_scores)
             IN  IF best.score < darkness
                 THEN Ok([digit |-> "?",
                          warnings |-> << Warning("id_too_light", digit_index) >>])
                 ELSE IF rival_score * relative_threshold_den
                            >= best.score * relative_num
                 THEN Ok([digit |-> "?",
                          warnings |-> << Warning("id_ambiguous", digit_index) >>])
                 ELSE Ok([digit |-> best.label, warnings |-> << >>])

\* the pass with the values BubbleSheetScanner is built with by default
scan_digit(column_scores, digit_index) ==
    scan_digit_with(column_scores, digit_index, threshold,
                    relative_threshold_num, min_darkness)

RECURSIVE ScanColumns(_, _, _, _)
ScanColumns(fill, columns, digits, warnings) ==
    IF columns = << >> THEN Ok([digits |-> digits, warnings |-> warnings])
    ELSE CHOOSE scanned \in
             { IF r.raised THEN r
               ELSE ScanColumns(fill, Tail(columns),
                                Append(digits, r.value.digit),
                                warnings \o r.value.warnings) :
                   r \in {scan_digit(BubbleScores(fill, columns[1].bubbles),
                                     columns[1].digit_index)} } : TRUE

\* _scan_student_id
scan_student_id(fill, layout) ==
    CHOOSE id \in
        { IF cols.raised THEN cols
          ELSE CHOOSE scanned \in
                   { IF r.raised THEN r
                     ELSE IF (\E i \in 1..Len(r.value.digits) : r.value.digits[i] = "?")
                             \/ r.value.digits = << >>
                     THEN Ok([student_id |-> ERROR_ID,
                              warnings |-> Append(r.value.warnings,
                                                  Warning("id_unresolved", None))])
                     ELSE Ok([student_id |-> r.value.digits,
                              warnings |-> r.value.warnings]) :
                         r \in {ScanColumns(fill, cols.value, << >>, << >>)} } : TRUE :
              cols \in {sorted_columns(layout.student_id_columns)} } : TRUE

\* d[k] = v on an insertion-ordered dict, kept as a sequence of items
DictSet(d, k, v) ==
    IF \E i \in 1..Len(d) : d[i].key = k
    THEN [i \in 1..Len(d) |-> IF d[i].key = k THEN [key |-> k, value |-> v] ELSE d[i]]
    ELSE Append(d, [key |-> k, value |-> v])

ReachesRelativeCutoff(score, best_score) ==
    score * relative_threshold_den >= best_score * relative_threshold_num

\* score >= max(threshold * 0.5, best_score * relative_threshold)
ReachesCutoff(score, best_score) ==
    /\ 2 * score >= threshold
    /\ score * relative_threshold_den >= best_score * relative_threshold_num

scan_question_above_threshold(option_scores, number) ==
    LET selections == LabelsOf(SelectSeq(option_scores, LAMBDA it : it.score > threshold))
    IN  IF selections # << >>
        THEN Ok([answer |-> JoinComma(SortLabels(selections)), warnings |-> << >>])
        ELSE IF option_scores = << >> THEN Raise("ValueError")
        ELSE LET best == option_scores[BestIndex(option_scores)]
             IN  IF best.score < min_darkness
                 THEN Ok([answer |-> << >>,
                          warnings |-> << Warning("q_too_light", number) >>])
                 ELSE LET above == LabelsOf(SelectSeq(option_scores,
                                      LAMBDA it : ReachesCutoff(it.score, best.score)))
                          fallback == IF above = << >> THEN << best.label >> ELSE above
                      IN  Ok([answer |-> JoinComma(SortLabels(fallback)),
                              warnings |-> << Warning("q_fallback", number) >>])

\* one pass of the loop of _scan_answers over a question
scan_question(option_scores, number) ==
    LET selections == LabelsOf(SelectSeq(option_scores, LAMBDA it : it.score >= threshold))
    IN  IF selections # << >>
        THEN Ok([answer |-> JoinComma(SortLabels(selections)), warnings |-> << >>])
        ELSE IF option_scores = << >> THEN Raise("ValueError")
        ELSE LET best == option_scores[BestIndex(option_scores)]
             IN  IF best.score < min_darkness
                 THEN Ok([answer |-> << >>,
                          warnings |-> << Warning("q_too_light", number) >>])
                 ELSE LET above == LabelsOf(SelectSeq(option_scores,
                                      LAMBDA it : ReachesCutoff(it.score, best.score)))
                          fallback == IF above = << >> THEN << best.label >> ELSE above
                      IN  Ok([answer |-> JoinComma(SortLabels(fallback)),
                              warnings |-> << Warning("q_fallback", number) >>])

RECURSIVE ScanQuestions(_, _, _, _)
ScanQuestions(fill, questions, answers, warnings) ==
    IF questions = << >> THEN Ok([answers |-> answers, warnings |-> warnings])
    ELSE CHOOSE scanned \in
             { IF r.raised THEN r
               ELSE ScanQuestions(fill, Tail(questions),
                                  DictSet(answers, questions[1].number, r.value.answer),
                                  warnings \o r.value.warnings) :
                   r \in {scan_question(BubbleScores(fill, questions[1].bubbles),
                                        questions[1].number)} } : TRUE

\* _scan_answers
scan_answers(fill, layout) == ScanQuestions(fill, layout.questions, << >>, << >>)

\* BubbleSheetScanner.scan_image.  An image is [readable, align, fill]:
\* whether cv2 can process it, the warnings of the alignment estimator, and
\* the darkness found at each place of the sheet.
scan_image(page_number, image, layout) ==
    IF ~image.readable THEN Raise("cv2.error")
    ELSE CHOOSE result \in
             { IF id.raised THEN id
               ELSE CHOOSE scanned \in
                        { IF ans.raised THEN ans
                          ELSE Ok([page_number |-> page_number,
                                   student_id |-> id.value.student_id,
                                   answers |-> ans.value.answers,
                                   warnings |-> image.align \o id.value.warnings
                                                  \o ans.value.warnings]) :
                              ans \in {scan_answers(image.fill, layout)} } : TRUE :
                   id \in {scan_student_id(image.fill, layout)} } : TRUE

\* ------------------------------------------------------------------------
\* grader.py: grading engine
\* ------------------------------------------------------------------------
\* str.strip(), str.lstrip(chars), str.split(","), str.startswith("Q")
RECURSIVE LStrip(_, _)
LStrip(s, chars) ==
    IF s # << >> /\ s[1] \in chars THEN LStrip(Tail(s), chars) ELSE s

RECURSIVE RStrip(_, _)
RStrip(s, chars) ==
    IF s # << >> /\ s[Len(s)] \in chars
    THEN RStrip(SubSeq(s, 1, Len(s) - 1), chars) ELSE s

Strip(s) == RStrip(LStrip(s, {" "}), {" "})

RECURSIVE SplitComma(_)
SplitComma(s) ==
    IF \E i \in 1..Len(s) : s[i] = ","
    THEN LET i == CHOOSE i \in 1..Len(s) :
                      s[i] = "," /\ \A j \in 1..(i - 1) : s[j] # ","
         IN  << SubSeq(s, 1, i - 1) >> \o SplitComma(SubSeq(s, i + 1, Len(s)))
    ELSE << s >>

StartsWithQ(s) == s # << >> /\ s[1] = "Q"

\* int(s): ValueError unless s, stripped, is a non-empty run of digits
RECURSIVE DigitsValue(_)
DigitsValue(s) ==
    IF s = << >> THEN 0
    ELSE 10 * DigitsValue(SubSeq(s, 1, Len(s) - 1))
             + (CHOOSE d \in 0..9 : Digits[d + 1] = s[Len(s)])

PyInt(s) ==
    LET t == Strip(s)
    IN  IF t # << >> /\ \A i \in 1..Len(t) : \E d \in 1..10 : Digits[d] = t[i]
        THEN Ok(DigitsValue(t)) ELSE Raise("ValueError")

\* ------------------------------------------------------------------------
\* Python floats (IEEE 754 binary64), as far as round() needs them: where a
\* decimal value lies exactly halfway between two results, round() goes by
\* the float it is given, which lies above, below or on the halfway value.
\* A natural number is its digits in base 2^15, lowest first, without
\* leading zeros; a positive float is [m, e] for m * 2^e, m of 53 bits.
\* ------------------------------------------------------------------------
Trim(a) ==
    LET nonzero == {i \in 1..Len(a) : a[i] # 0}
    IN  IF nonzero = {} THEN << >>
        ELSE SubSeq(a, 1, CHOOSE i \in nonzero : \A j \in nonzero : j <= i)

Big(n) == Trim(<< n % 32768, (n \div 32768) % 32768, n \div (32768 * 32768) >>)

BitLen(a) ==
    IF a = << >> THEN 0
    ELSE 15 * (Len(a) - 1) + Cardinality({i \in 0..14 : 2^i <= a[Len(a)]})

\* -1, 0 or 1 as a < b, a = b or a > b
BCmp(a, b) ==
    IF Len(a) # Len(b) THEN (IF Len(a) < Len(b) THEN -1 ELSE 1)
    ELSE LET differ == {i \in 1..Len(a) : a[i] # b[i]}
         IN  IF differ = {} THEN 0
             ELSE LET top == CHOOSE i \in differ : \A j \in differ : j <= i
                  IN  IF a[top] < b[top] THEN -1 ELSE 1

\* a * s + carry for s and carry below 2^15
RECURSIVE BMulSmall(_, _, _)
BMulSmall(a, s, carry) ==
    IF a = << >> THEN Big(carry)
    ELSE << (a[1] * s + carry) % 32768 >>
         \o BMulSmall(Tail(a), s, (a[1] * s + carry) \div 32768)

\* a - b - borrow for a >= b + borrow, with leading zeros
RECURSIVE BSub(_, _, _)
BSub(a, b, borrow) ==
    IF a = << >> THEN << >>
    ELSE LET low == a[1] - (IF b = << >> THEN 0 ELSE b[1]) - borrow
         IN  << low % 32768 >>
             \o BSub(Tail(a), IF b = << >> THEN b ELSE Tail(b),
                     IF low < 0 THEN 1 ELSE 0)

\* a * 2^k
Shl(a, k) == Trim([i \in 1..(k \div 15) |-> 0] \o BMulSmall(a, 2^(k % 15), 0))

\* the digit of a quotient: the greatest g with g * d <= r, for r < d * 2^15
\* and the top digit of d being 2^14 or more; it is the quotient of the
\* leading digits, or one or two less
BDigit(r, d) ==
    LET len == Len(d)
        leading == (IF Len(r) > len THEN r[len + 1] ELSE 0) * 32768
                       + (IF Len(r) >= len THEN r[len] ELSE 0)
        estimate == IF leading \div d[len] < 32768 THEN leading \div d[len] ELSE 32767
    IN  CHOOSE g \in (estimate - 2)..estimate :
            /\ g >= 0
            /\ BCmp(Trim(BMulSmall(d, g, 0)), r) <= 0
            /\ (g = estimate \/ BCmp(Trim(BMulSmall(d, g + 1, 0)), r) > 0)

\* quotient and remainder of n by d, the top digit of d being 2^14 or
\* more: long division, a digit of n at a time
RECURSIVE BDivLimbs(_, _)
BDivLimbs(n, d) ==
    IF n = << >> THEN [q |-> << >>, r |-> << >>]
    ELSE CHOOSE result \in
             { [q |-> Trim(<< g >> \o high.q),
                r |-> Trim(BSub(r, Trim(BMulSmall(d, g, 0)), 0))] :
                 << high, r, g >> \in
                     { << h, low, BDigit(low, d) >> :
                         << h, low >> \in
                             { << h, Trim(<< n[1] >> \o h.r) >> :
                                 h \in {BDivLimbs(Tail(n), d)} } } } : TRUE

\* the quotient of n by d > 0, and whether the division leaves a remainder
BDiv(n, d) ==
    LET s == 15 - BitLen(<< d[Len(d)] >>)
        division == BDivLimbs(Shl(n, s), Shl(d, s))
    IN  [q |-> division.q, inexact |-> division.r # << >>]

\* the float nearest to (n / d) * 2^e, ties to even: the quotient is
\* taken to 55 bits or more and cut to 53, rounded by the bits cut off and
\* by whether the division left a remainder ({e : x \in {v}} has e
\* evaluated with x bound to the value v)
RoundQuot(n, d, e) ==
    LET k == IF 55 + BitLen(d) > BitLen(n) THEN 55 + BitLen(d) - BitLen(n) ELSE 0
    IN  CHOOSE float \in
            { [m |-> IF side > 0 \/ (side = 0 /\ (division.inexact \/ hi[1] % 2 = 1))
                     THEN BMulSmall(hi, 1, 1) ELSE hi,
               e |-> e - k + drop] :
                << division, drop, hi, side >> \in
                    { << dv, dr, h, BCmp(Trim(BSub(dv.q, Shl(h, dr), 0)),
                                         Shl(<< 1 >>, dr - 1)) >> :
                        << dv, dr, h >> \in
                            { << dv, dr, BDiv(dv.q, Shl(<< 1 >>, dr)).q >> :
                                << dv, dr >> \in
                                    { << dv, BitLen(dv.q) - 53 >> :
                                        dv \in {BDiv(Shl(n, k), d)} } } } } : TRUE

\* a + b + carry
RECURSIVE BAdd(_, _, _)
BAdd(a, b, carry) ==
    IF a = << >> /\ b = << >> THEN Big(carry)
    ELSE LET low == (IF a = << >> THEN 0 ELSE a[1])
                        + (IF b = << >> THEN 0 ELSE b[1]) + carry
         IN  << low % 32768 >>
             \o BAdd(IF a = << >> THEN a ELSE Tail(a),
                     IF b = << >> THEN b ELSE Tail(b), low \div 32768)

\* float(x) for x thousandths: the float nearest to the decimal, with its
\* sign s (0 for 0.0)
Float(x) ==
    IF x = 0 THEN [s |-> 0, m |-> << >>, e |-> 0]
    ELSE CHOOSE float \in
             { [s |-> IF x > 0 THEN 1 ELSE -1, m |-> f.m, e |-> f.e] :
                 f \in {RoundQuot(Big(IF x > 0 THEN x ELSE 0 - x), Big(1000), 0)} } :
             TRUE

\* x + y of two floats: the exact sum, rounded to 53 bits
FAdd(x, y) ==
    IF x.s = 0 THEN y
    ELSE IF y.s = 0 THEN x
    ELSE CHOOSE float \in
             { IF x.s = y.s
               THEN CHOOSE sum \in
                        { [s |-> x.s, m |-> f.m, e |-> f.e] :
                            f \in {RoundQuot(Trim(BAdd(a, b, 0)), << 1 >>, e)} } : TRUE
               ELSE IF BCmp(a, b) = 0 THEN [s |-> 0, m |-> << >>, e |-> 0]
               ELSE CHOOSE difference \in
                        { [s |-> IF BCmp(a, b) > 0 THEN x.s ELSE y.s,
                           m |-> f.m, e |-> f.e] :
                            f \in {RoundQuot(IF BCmp(a, b) > 0
                                             THEN Trim(BSub(a, b, 0))
                                             ELSE Trim(BSub(b, a, 0)),
                                             << 1 >>, e)} } : TRUE :
                 << a, b, e >> \in
                     { << Shl(x.m, x.e - low), Shl(y.m, y.e - low), low >> :
                         low \in {IF x.e < y.e THEN x.e ELSE y.e} } } : TRUE

\* the sum of numbers
RECURSIVE Sum(_)
Sum(terms) == IF terms = << >> THEN 0 ELSE terms[1] + Sum(Tail(terms))

\* A float that Python got by adding (total = 0.0, then total += term for
\* each term) is known by its terms in the order they were added, each in
\* thousandths: FSum is the float, Sum the decimal value it stands for,
\* from which it differs by the rounding of the additions
RECURSIVE FSum(_)
FSum(terms) ==
    IF terms = << >> THEN Float(0)
    ELSE FAdd(FSum(SubSeq(terms, 1, Len(terms) - 1)), Float(terms[Len(terms)]))

\* round(x, 2) of a float x, in hundredths: the hundredth nearest to the
\* value of x, the even one of the two when x lies exactly between them; a
\* result of 2^30 or more is left as its sign and digits
PyRound2(x) ==
    IF x.s = 0 THEN 0
    ELSE CHOOSE hundredths \in
             { IF Len(digits) > 2 THEN [s |-> x.s, digits |-> digits]
               ELSE x.s * ((IF Len(digits) > 0 THEN digits[1] ELSE 0)
                           + (IF Len(digits) > 1 THEN digits[2] * 32768 ELSE 0)) :
                 digits \in
                     { IF x.e >= 0 THEN Shl(BMulSmall(x.m, 100, 0), x.e)
                       ELSE CHOOSE nearest \in
                                { IF division.inexact \/ division.q = << >>
                                     \/ division.q[1] % 2 = 0
                                  THEN division.q
                                  ELSE Trim(BSub(division.q, << 1 >>, 0)) :
                                    division \in
                                        {BDiv(BAdd(Shl(BMulSmall(x.m, 100, 0), 1),
                                                   Shl(<< 1 >>, 0 - x.e), 0),
                                              Shl(<< 1 >>, 1 - x.e))} } : TRUE } } : TRUE

\* round(x, 2), in thousandths, of the float x that is the sum of the
\* terms. Unless the decimal value ends in 5 thousandths, x is too near
\* to it for its rounding to matter
Round2(terms) ==
    LET sum == Sum(terms)
        a == IF sum >= 0 THEN sum ELSE 0 - sum
    IN  IF a % 10 # 5
        THEN (IF sum >= 0 THEN 1 ELSE -1) * ((a + 5) \div 10) * 10
        ELSE PyRound2(FSum(terms)) * 10

\* lines 67-70 for total_points > 0, in thousandths, and count =
\* selected_correct - selected_incorrect > 0: the quotient, the product and
\* the sum with 1e-12 (the float 0x1.19799812dea11p-40) are floats, each
\* rounded to 53 bits, and round(x, 2) is given the last of them.  The
\* 1e-12 lifts a float that lies just below a value halfway between two
\* results as long as it is more than half the gap between floats there.
\* The float lies within 3e-12 of count * total_points / correct_options
\* for total_points below 2^20 thousandths, and that value is halfway
\* between two results or 0.001 / correct_options or more from it: unless
\* it is halfway, x is too near to it for its rounding to matter
Round2Nudged(total_points, correct_options, count) ==
    IF total_points < 1048576
           /\ (count * total_points) % (10 * correct_options) # 5 * correct_options
    THEN ((count * total_points + 5 * correct_options)
              \div (10 * correct_options)) * 10
    ELSE CHOOSE score \in
        { PyRound2(FAdd([s |-> 1, m |-> raw_score.m, e |-> raw_score.e],
                        [s |-> 1, m |-> << 27153, 603, 24166, 140 >>, e |-> -92]))
              * 10 :
            raw_score \in
                { RoundQuot(BMulSmall(point_per_option.m, count, 0), << 1 >>,
                            point_per_option.e) :
                    point_per_option \in
                        { RoundQuot(points.m, Big(correct_options), points.e) :
                            points \in {Float(total_points)} } } } : TRUE

tokenize_answers_keeping_case(value) ==
    IF value = << >> THEN << >>
    ELSE LET text == Strip(value)
         IN  IF text = << >> THEN << >>
             ELSE LET parts == SplitComma(text)
                      kept == SelectSeq(parts, LAMBDA part : Strip(part) # << >>)
                  IN  [i \in 1..Len(kept) |-> Strip(kept[i])]

\* _tokenize_answers
tokenize_answers(value) ==
    IF value = << >> THEN << >>
    ELSE LET text == Strip(value)
         IN  IF text = << >> THEN << >>
             ELSE LET parts == SplitComma(text)
                      kept == SelectSeq(parts, LAMBDA part : Strip(part) # << >>)
                  IN  [i \in 1..Len(kept) |-> Lower(Strip(kept[i]))]

SeqToSet(s) == {s[i] : i \in 1..Len(s)}

\* QuestionSpec.is_multiple, QuestionSpec.num_correct
is_multiple(spec) == Cardinality(spec.correct_options) > 1

num_correct(spec) == Cardinality(spec.correct_options)

score_multiple_select_adding(total_points, correct_options, selected_correct, selected_incorrect) ==
    IF total_points < 0 THEN Raise("ValueError")
    ELSE IF correct_options <= 0 THEN Ok(0)
    ELSE IF selected_correct < 0 \/ selected_incorrect < 0 THEN Raise("ValueError")
    ELSE IF selected_correct > correct_options THEN Raise("ValueError")
    ELSE LET count == selected_correct + selected_incorrect
         IN  IF count * total_points <= 0 THEN Ok(0)
             ELSE Ok(Round2Nudged(total_points, correct_options, count))

\* _score_multiple_select
score_multiple_select(total_points, correct_options, selected_correct, selected_incorrect) ==
    IF total_points < 0 THEN Raise("ValueError")
    ELSE IF correct_options <= 0 THEN Ok(0)
    ELSE IF selected_correct < 0 \/ selected_incorrect < 0 THEN Raise("ValueError")
    ELSE IF selected_correct > correct_options THEN Raise("ValueError")
    ELSE LET count == selected_correct - selected_incorrect
         IN  IF count * total_points <= 0 THEN Ok(0)
             ELSE Ok(Round2Nudged(total_points, correct_options, count))

\* BubbleSheetGrader.__init__: an answer key is a sequence of items
\* [question, answer, points]
RECURSIVE BuildSpecs(_, _)
BuildSpecs(answer_key, grader) ==
    IF answer_key = << >> THEN Ok(grader)
    ELSE LET item == answer_key[1]
             question_id == Upper(item.question)
             tokens == tokenize_answers(item.answer)
         IN  IF tokens = << >> THEN Raise("ValueError")
             ELSE BuildSpecs(Tail(answer_key),
                      [question_specs |->
                           DictSet(grader.question_specs, question_id,
                                   [question_id |-> question_id,
                                    correct_options |-> SeqToSet(tokens),
                                    points |-> item.points]),
                       question_order |-> Append(grader.question_order, question_id),
                       total_points |-> Append(grader.total_points, item.points)])

\* total_points is a float sum (lines 86, 106), kept as its terms
BubbleSheetGrader(answer_key) ==
    BuildSpecs(answer_key,
               [question_specs |-> << >>, question_order |-> << >>,
                total_points |-> << >>])

\* the test of one student answer key against one question id
\* (grade_response, body of the inner loop)
KeyMatches(key, question_id) ==
    \/ \E upper \in {Upper(key)} :
           (IF StartsWithQ(upper) THEN upper ELSE << "Q" >> \o upper) = question_id
    \/ \E key_num \in {PyInt(LStrip(key, {"Q", "q"}))} :
       \E qid_num \in {PyInt(LStrip(question_id, {"Q", "q"}))} :
           /\ ~key_num.raised
           /\ ~qid_num.raised
           /\ key_num.value = qid_num.value

\* the answer grade_response picks for a question: that of the first item of
\* the student's answers that matches, "" when none does
StudentAnswer(answers, question_id) ==
    CHOOSE value \in
        { IF matching = {} THEN << >>
          ELSE answers[CHOOSE i \in matching : \A j \in matching : i <= j].value :
              matching \in {{i \in 1..Len(answers) :
                                KeyMatches(answers[i].key, question_id)}} } : TRUE

QuestionScoreSuperset(spec, student_answer) ==
    CHOOSE score \in
        { IF ~is_multiple(spec)
          THEN Ok(IF spec.correct_options \subseteq selected_tokens
                  THEN spec.points ELSE 0)
          ELSE score_multiple_select(
                   spec.points, num_correct(spec),
                   Cardinality(selected_tokens \cap spec.correct_options),
                   Cardinality(selected_tokens \ spec.correct_options)) :
              selected_tokens \in {SeqToSet(tokenize_answers(student_answer))} } : TRUE

\* the score of one question (grade_response, lines 149-158)
QuestionScore(spec, student_answer) ==
    CHOOSE score \in
        { IF ~is_multiple(spec)
          THEN Ok(IF selected_tokens = spec.correct_options THEN spec.points ELSE 0)
          ELSE score_multiple_select(
                   spec.points, num_correct(spec),
                   Cardinality(selected_tokens \cap spec.correct_options),
                   Cardinality(selected_tokens \ spec.correct_options)) :
              selected_tokens \in {SeqToSet(tokenize_answers(student_answer))} } : TRUE

\* the loop of grade_response over the questions (lines 124-161):
\* per_question holds the rounded scores, total_score the terms of the sum
RECURSIVE GradeSpecs(_, _, _, _)
GradeSpecs(specs, answers, per_question, total_score) ==
    IF specs = << >>
    THEN Ok([per_question |-> per_question, total_score |-> total_score])
    ELSE CHOOSE graded \in
             { IF score.raised THEN score
               ELSE GradeSpecs(Tail(specs), answers,
                               DictSet(per_question, specs[1].value.question_id,
                                       Round2(<< score.value >>)),
                               Append(total_score, score.value)) :
                   score \in {QuestionScore(specs[1].value,
                                  StudentAnswer(answers, specs[1].value.question_id))} } : TRUE

\* round((total_score / total_points) * 100, 2) in hundredths of a percent,
\* for total_score in thousandths, the float nearest to that decimal, and
\* the float sum total_points > 0. The quotient and the product are rounded
\* as floats before round() sees them, which matters where the decimal
\* values give a result exactly halfway between two hundredths or the
\* divisor stands for the decimal 0
Percent(total_score, total_points) ==
    LET a == IF total_score >= 0 THEN total_score ELSE 0 - total_score
        points == Sum(total_points)
    IN  IF total_score = 0 THEN 0
        ELSE IF a < 100000 /\ points > 0 /\ (2 * a * 10000) % (2 * points) # points
        THEN (IF total_score >= 0 THEN 1 ELSE -1)
                 * ((2 * a * 10000 + points) \div (2 * points))
        ELSE CHOOSE hundredths \in
                 { PyRound2([s |-> score.s, m |-> product.m, e |-> product.e]) :
                     << score, product >> \in
                         { << s, RoundQuot(BMulSmall(q.m, 100, 0), << 1 >>, q.e) >> :
                             << s, q >> \in
                                 { << s, RoundQuot(s.m, d.m, s.e - d.e) >> :
                                     << s, d >> \in
                                         {<< Float(total_score),
                                             FSum(total_points) >>} } } } : TRUE

\* BubbleSheetGrader.grade_response; answers is the parsed answers_json
grade_response(grader, answers) ==
    CHOOSE graded \in
        { IF r.raised THEN r
          ELSE CHOOSE result \in
                   { Ok([total_score |-> total_score,
                         percent_grade |-> IF (IF Sum(grader.total_points) # 0
                                                 THEN Sum(grader.total_points) > 0
                                                 ELSE FSum(grader.total_points).s > 0)
                                           THEN Percent(total_score, grader.total_points)
                                           ELSE 0,
                         per_question |-> r.value.per_question]) :
                       total_score \in {Round2(r.value.total_score)} } : TRUE :
              r \in {GradeSpecs(grader.question_specs, answers, << >>, << >>)} } : TRUE

\* the test of one student answer key against one question id in
\* generate_gradebook_csv (lines 199-208)
CsvKeyMatches(key, q_id) ==
    \E key_num \in {PyInt(LStrip(key, {"Q", "q"}))} :
    \E qid_num \in {PyInt(LStrip(q_id, {"Q", "q"}))} :
        IF key_num.raised \/ qid_num.raised
        THEN Upper(key) = q_id
        ELSE key_num.value = qid_num.value

\* the cell of one question column of one row
CsvAnswer(answers, q_id) ==
    CHOOSE cell \in
        { IF matching = {} THEN << >>
          ELSE Upper(answers[CHOOSE i \in matching : \A j \in matching : i <= j].value) :
              matching \in {{i \in 1..Len(answers) :
                                CsvKeyMatches(answers[i].key, q_id)}} } : TRUE

\* BubbleSheetGrader.generate_gradebook_csv: the header's question columns
\* and one row per response
generate_gradebook_csv(grader, responses) ==
    [question_cols |->
         [i \in 1..Len(grader.question_order) |->
             << "Q" >> \o LStrip(grader.question_order[i], {"Q"})],
     rows |->
         [r \in 1..Len(responses) |->
             [student_id |-> responses[r].student_id,
              answers |-> [i \in 1..Len(grader.question_order) |->
                              CsvAnswer(responses[r].answers, grader.question_order[i])],
              score |-> responses[r].score,
              total_possible |-> grader.total_points,
              percent |-> responses[r].percent_grade]]]

SeqMin(s) == CHOOSE x \in SeqToSet(s) : \A y \in SeqToSet(s) : x <= y

SeqMax(s) == CHOOSE x \in SeqToSet(s) : \A y \in SeqToSet(s) : x >= y

\* BubbleSheetGrader.get_stats (the extremes; min() and sum() over a score
\* that is None are a TypeError)
get_stats(responses) ==
    IF responses = << >> THEN Ok([min_score |-> 0, max_score |-> 0])
    ELSE LET scores == [i \in 1..Len(responses) |-> responses[i].score]
         IN  IF \E i \in 1..Len(scores) : scores[i] = None
             THEN Raise("TypeError")
             ELSE Ok([min_score |-> Round2(<< SeqMin(scores) >>),
                      max_score |-> Round2(<< SeqMax(scores) >>)])

\* ------------------------------------------------------------------------
\* The documents the orchestrator is run on
\* ------------------------------------------------------------------------
Bubble(label, at) == [label |-> label, at |-> at]

\* two id columns of two digits, a single-select and a multi-select question
LayoutStd ==
    [keys |-> {"dimensions", "questions", "student_id", "alignment_markers"},
     student_id |-> << [digit_index |-> 1, digit |-> None,
                        bubbles |-> << Bubble("0", 1), Bubble("1", 2) >>],
                       [digit_index |-> 2, digit |-> None,
                        bubbles |-> << Bubble("0", 3), Bubble("1", 4) >>] >>,
     questions |-> << [number |-> 1, bubbles |-> << Bubble("a", 5), Bubble("b", 6) >>],
                      [number |-> 2, bubbles |-> << Bubble("a", 7), Bubble("b", 8),
                                                    Bubble("c", 9) >>] >>]

\* the standard document, and one without its "questions"
Layouts ==
    {LayoutStd, [LayoutStd EXCEPT !.keys = {"dimensions", "student_id"}]}

Fill(f1, f2, f3, f4, f5, f6, f7, f8, f9) ==
    [p \in 1..9 |-> << f1, f2, f3, f4, f5, f6, f7, f8, f9 >>[p]]

\* A page of a scan is [renders, readable, align, fill]: whether
\* pdf_bytes_to_images can yield it, and the image it yields.
PageClean ==
    [renders |-> TRUE, readable |-> TRUE, align |-> << >>,
     fill |-> Fill(90, 2, 3, 80, 85, 4, 70, 75, 3)]

PageUnreadable ==
    [renders |-> TRUE, readable |-> FALSE, align |-> << >>,
     fill |-> Fill(0, 0, 0, 0, 0, 0, 0, 0, 0)]

\* The bytes handed to upload_scans: [readable, pages]; count_pdf_pages
\* raises on bytes that are no PDF.  The scans have MaxPages pages: a clean
\* page followed by pages of any kind, or an unreadable page followed by
\* clean ones.
Pdfs ==
    {[readable |-> FALSE, pages |-> << >>]}
    \cup {[readable |-> TRUE, pages |-> p] :
             p \in {q \in [1..MaxPages ->
                          {PageClean, PageUnreadable,
                           [renders |-> FALSE, readable |-> FALSE, align |-> << >>,
                            fill |-> Fill(0, 0, 0, 0, 0, 0, 0, 0, 0)],
                           [renders |-> TRUE, readable |-> TRUE, align |-> << >>,
                            fill |-> Fill(3, 5, 2, 90, 80, 3, 2, 77, 4)]}] :
                       \/ q[1] = PageClean
                       \/ q[1] = PageUnreadable
                              /\ \A i \in 2..MaxPages : q[i] = PageClean}}

KeyItem(question, answer, points) ==
    [question |-> question, answer |-> answer, points |-> points]

\* [{Q1, "a", 1}, {Q2, "a,b", 4}]
KeyStd ==
    << KeyItem(<< "Q", "1" >>, << "a" >>, 1000),
       KeyItem(<< "q", "2" >>, << "a", ",", "b" >>, 4000) >>

\* the standard key, a question whose answer has no token, and a
\* multi-select question worth negative points
AnswerKeys ==
    {KeyStd,
     << KeyItem(<< "Q", "1" >>, << " " >>, 1000) >>,
     << KeyItem(<< "Q", "2" >>, << "a", ",", "b" >>, -2000) >>}

\* ------------------------------------------------------------------------
\* State: the tables of the database file (test_manager.py _create_tables)
\* as committed, for one test and one grading job of it; the connections
\* to the file and the call each is running; the outcome of the last call
\* that ended
\* ------------------------------------------------------------------------
VARIABLES
    foreign_keys, \* PRAGMA foreign_keys of the connections, set when
                  \* edmcp_core's DatabaseManager opens them
    testExists,   \* the test's row of bubble_tests exists
    testStatus,   \* bubble_tests.status
    archived,     \* bubble_tests.archived, FALSE when the row is gone
    sheets,       \* bubble_sheets of the test, in rowid order:
                  \* [layout_json, created_at]
    answerKeys,   \* answer_keys of the test: key_data
    job,          \* the job's row of grading_jobs; status "NONE": no row
    responses,    \* student_responses of the job, in rowid order
    reports,      \* grading_reports of the job
    sqlite_sequence, \* the last id given to a row of student_responses
                  \* (INTEGER PRIMARY KEY AUTOINCREMENT)
    uncommitted,  \* the tables as the connection that holds the write lock
                  \* has changed them; None when no connection holds it
    conn,         \* for each connection [tx, call]: the locks of its
                  \* transaction and the call it is running
    overlaps,     \* the calls that began while another call was running
    last,         \* the last call that ended: [op, result, why]
    probe         \* the input and result of a function run on its own

vars == << foreign_keys, testExists, testStatus, archived, sheets, answerKeys,
           job, responses, reports, sqlite_sequence, uncommitted, conn,
           overlaps, last, probe >>

\* server.py opens one connection for its two managers (lines 30, 47),
\* ui/app.py another (line 28), and so does every further process
Connections == 1..MaxCalls

NoJob ==
    [status |-> "NONE", scan_pdf |-> << >>, num_pages |-> None,
     num_students |-> 0, error_message |-> "NULL"]

Call(op, result, why) == [op |-> op, result |-> result, why |-> why]

Idle == [op |-> "idle", pc |-> "idle"]

Init ==
    /\ foreign_keys \in BOOLEAN
    /\ testExists = TRUE
    /\ testStatus = "CREATED"
    /\ archived = FALSE
    /\ sheets = << >>
    /\ answerKeys = << >>
    /\ job = NoJob
    /\ responses = << >>
    /\ reports = << >>
    /\ sqlite_sequence = 0
    /\ uncommitted = None
    /\ conn = [c \in Connections |-> [tx |-> "none", call |-> Idle]]
    /\ overlaps = 0
    /\ last = Call("create_test", Ok(0), "")
    /\ probe = << >>

\* the tables as the statements of a connection see them: its own changes
\* if it has any, else the tables of the file, with nothing of what another
\* connection has not committed
View(c) ==
    IF conn[c].tx \in {"reserved", "pending"} THEN uncommitted
    ELSE [testExists |-> testExists, testStatus |-> testStatus,
          archived |-> archived,
          sheets |-> sheets, answerKeys |-> answerKeys, job |-> job,
          responses |-> responses, reports |-> reports,
          sqlite_sequence |-> sqlite_sequence]

\* Each call is run statement by statement: a step of a call is one
\* cursor.execute or conn.commit and the Python that follows it, up to the
\* next one.  A call is [op, pc, ...]: the statement it is at and what it
\* keeps in its local variables; it has ended at pc "done".
Done(op, result, why) ==
    [op |-> op, pc |-> "done", result |-> result, why |-> why]

\* A statement is [kind, tables, then, busy]: a SELECT, a write (INSERT,
\* UPDATE, DELETE) or a COMMIT, what it does to the tables, the call after
\* it, and the call after it when the database is locked: no method catches
\* sqlite3.OperationalError
Statement(kind, tables, then) ==
    [kind |-> kind, tables |-> tables, then |-> then,
     busy |-> Done(then.op, Raise("OperationalError"), "locked")]

\* raise GradingJobError(...)
Rejected(op, why) == Done(op, Raise("GradingJobError"), why)

\* The locks of SQLite on a file with a rollback journal, taken by sqlite3
\* connections of the default isolation level: a connection is in no
\* transaction ("none"), has begun one without a lock ("open": the implicit
\* BEGIN before an INSERT, UPDATE or DELETE that was refused), has read
\* in it ("shared"), has written in it ("reserved"), or has been refused
\* the commit of what it wrote ("pending").  A statement is refused:
\* a SELECT while another connection waits to commit, a write while another
\* connection has written, a COMMIT while another connection reads.
Busy(c, kind) ==
    LET others == {conn[d].tx : d \in Connections \ {c}}
    IN  CASE kind = "select" ->
                conn[c].tx \in {"none", "open"} /\ "pending" \in others
          [] kind = "write" ->
                /\ conn[c].tx \notin {"reserved", "pending"}
                /\ others \cap {"reserved", "pending"} # {}
          [] kind = "commit" ->
                conn[c].tx \in {"reserved", "pending"} /\ "shared" \in others

\* the transaction of connection c after a statement.  A write that is
\* refused because another connection has written leaves the transaction
\* that was begun for it; one that is refused because another connection
\* waits to commit leaves none
Transaction(c, kind, busy) ==
    LET tx == conn[c].tx
        others == {conn[d].tx : d \in Connections \ {c}}
    IN  CASE kind = "select" -> IF ~busy /\ tx = "open" THEN "shared" ELSE tx
          [] kind = "write" ->
                IF busy THEN (IF tx = "none" /\ "pending" \notin others
                              THEN "open" ELSE tx)
                ELSE IF tx = "pending" THEN "pending" ELSE "reserved"
          [] kind = "commit" -> IF busy THEN "pending" ELSE "none"

\* cursor.execute / conn.commit on connection c, and the call going on.
\* The model lets MaxOverlaps calls begin while another connection is in a
\* call or holds a lock.
Execute(c, statement) ==
    \E st \in {statement} :
    \E busy \in {Busy(c, st.kind)} :
    \E call \in {IF busy THEN st.busy ELSE st.then} :
    \E overlap \in {conn[c].call = Idle
                       /\ \E d \in Connections \ {c} :
                              \/ conn[d].call # Idle
                              \/ conn[d].tx \in {"shared", "reserved", "pending"}} :
        /\ overlap => overlaps < MaxOverlaps
        /\ overlaps' = IF overlap THEN overlaps + 1 ELSE overlaps
        /\ conn' = [conn EXCEPT ![c] =
                       [tx |-> Transaction(c, st.kind, busy),
                        call |-> IF call.pc = "done" THEN Idle ELSE call]]
        /\ last' = IF call.pc = "done"
                   THEN Call(call.op, call.result, call.why) ELSE last
        /\ IF st.kind = "write" /\ ~busy
           THEN /\ uncommitted' = st.tables
                /\ UNCHANGED << testExists, testStatus, archived, sheets,
                                answerKeys, job, responses, reports,
                                sqlite_sequence >>
           ELSE IF st.kind = "commit" /\ ~busy
                   /\ conn[c].tx \in {"reserved", "pending"}
           THEN /\ testExists' = uncommitted.testExists
                /\ testStatus' = uncommitted.testStatus
                /\ archived' = uncommitted.archived
                /\ sheets' = uncommitted.sheets
                /\ answerKeys' = uncommitted.answerKeys
                /\ job' = uncommitted.job
                /\ responses' = uncommitted.responses
                /\ reports' = uncommitted.reports
                /\ sqlite_sequence' = uncommitted.sqlite_sequence
                /\ uncommitted' = None
           ELSE UNCHANGED << testExists, testStatus, archived, sheets,
                             answerKeys, job, responses, reports,
                             sqlite_sequence, uncommitted >>
        /\ UNCHANGED << foreign_keys, probe >>

\* A connection that is closed (its process ends) with a transaction open:
\* what it has not committed is rolled back.  The process that is started
\* in its place opens the connection again.
close(c) ==
    /\ conn[c].call = Idle
    /\ conn[c].tx # "none"
    /\ conn' = [conn EXCEPT ![c].tx = "none"]
    /\ uncommitted' = IF conn[c].tx \in {"reserved", "pending"}
                      THEN None ELSE uncommitted
    /\ UNCHANGED << foreign_keys, testExists, testStatus, archived, sheets, answerKeys,
                    job, responses, reports, sqlite_sequence, overlaps, last,
                    probe >>

\* the calls of an operation that have begun and not ended
InFlight(op) == Cardinality({c \in Connections : conn[c].call.op = op})

\* the call connection c runs a step of: the one it is running, or a new one
Running(c, call) == IF conn[c].call = Idle THEN call ELSE conn[c].call

\* BubbleTestManager.get_test as the tools of server.py call it: three
\* SELECTs; the tool returns its error when there is no test, and goes on
\* at next when there is one
get_test(call, db, next) ==
    CASE call.pc = "test" ->
            Statement("select", None,
                   IF db.testExists THEN [call EXCEPT !.pc = "has_sheet"]
                   ELSE Done(call.op, Ok("error"), "test_not_found"))
      [] call.pc = "has_sheet" -> Statement("select", None,
                                         [call EXCEPT !.pc = "has_answer_key"])
      [] call.pc = "has_answer_key" -> Statement("select", None,
                                              [call EXCEPT !.pc = next])

\* BubbleTestManager.store_sheet: INSERT INTO bubble_sheets, which the
\* foreign key on test_id refuses for a test that is gone; UPDATE
\* bubble_tests; commit
store_sheet(call, db, created_at) ==
    CASE call.pc = "insert" ->
            IF foreign_keys /\ ~db.testExists
            THEN Statement("write",
                       db, Done(call.op, Raise("IntegrityError"), "foreign_key"))
            ELSE Statement("write",
                       [db EXCEPT !.sheets =
                           Append(@, [layout_json |-> call.layout,
                                      created_at |-> created_at])],
                       [call EXCEPT !.pc = "status"])
      [] call.pc = "status" ->
            Statement("write",
                  [db EXCEPT !.testStatus =
                      IF db.testExists THEN "SHEET_GENERATED" ELSE @],
                  [call EXCEPT !.pc = "commit"])
      [] call.pc = "commit" -> Statement("commit", None,
                                      Done(call.op, Ok("success"), ""))

\* BubbleTestManager.set_answer_key: DELETE FROM answer_keys; INSERT INTO
\* answer_keys, which the foreign key on test_id refuses for a test that is
\* gone; UPDATE bubble_tests; commit
set_answer_key(call, db) ==
    CASE call.pc = "delete" ->
            Statement("write",
                  [db EXCEPT !.answerKeys = << >>], [call EXCEPT !.pc = "insert"])
      [] call.pc = "insert" ->
            IF foreign_keys /\ ~db.testExists
            THEN Statement("write",
                       db, Done(call.op, Raise("IntegrityError"), "foreign_key"))
            ELSE Statement("write",
                       [db EXCEPT !.answerKeys = << call.answers >>],
                       [call EXCEPT !.pc = "status"])
      [] call.pc = "status" ->
            Statement("write",
                  [db EXCEPT !.testStatus =
                      IF db.testExists /\ @ = "SHEET_GENERATED"
                      THEN "KEY_ADDED" ELSE @],
                  [call EXCEPT !.pc = "commit"])
      [] call.pc = "commit" -> Statement("commit", None,
                                      Done(call.op, Ok("success"), ""))

\* server.py generate_bubble_sheet: get_test (line 100), then store_sheet
\* (line 119) of the sheet that was generated
server_generate_bubble_sheet(c, layout) ==
    /\ conn[c].call.op \in {"idle", "generate_bubble_sheet"}
    /\ conn[c].call = Idle =>
           \A d \in Connections :
               Len(View(d).sheets) + InFlight("generate_bubble_sheet") < MaxSheets
    /\ \E call \in {Running(c, [op |-> "generate_bubble_sheet", pc |-> "test",
                                layout |-> layout])} :
       \E db \in {View(c)} :
           /\ call.layout = layout
           /\ \E created_at \in
                  (IF db.sheets = << >> THEN {0}
                   ELSE {SeqMin([i \in 1..Len(db.sheets) |-> db.sheets[i].created_at]) - 1,
                         SeqMax([i \in 1..Len(db.sheets) |-> db.sheets[i].created_at]) + 1}) :
                  Execute(c, IF call.pc \in {"test", "has_sheet", "has_answer_key"}
                             THEN get_test(call, db, "insert")
                             ELSE store_sheet(call, db, created_at))

\* server.py set_answer_key: get_test (line 349), then
\* manager.set_answer_key (line 369) of the answers that were parsed
server_set_answer_key(c, answers) ==
    /\ conn[c].call.op \in {"idle", "set_answer_key"}
    /\ \E call \in {Running(c, [op |-> "set_answer_key", pc |-> "test",
                                answers |-> answers])} :
       \E db \in {View(c)} :
           /\ call.answers = answers
           /\ Execute(c, IF call.pc \in {"test", "has_sheet", "has_answer_key"}
                         THEN get_test(call, db, "delete")
                         ELSE set_answer_key(call, db))

\* BubbleTestManager.delete_test under server.py delete_bubble_test: a
\* SELECT, three DELETEs, commit.  grading_jobs.test_id references
\* bubble_tests(id): on a connection that enforces foreign keys the third
\* DELETE is refused for a test that has a job, and the first two stay in
\* the transaction of the connection.
delete_test(c) ==
    /\ conn[c].call.op \in {"idle", "delete_test"}
    /\ \E call \in {Running(c, [op |-> "delete_test", pc |-> "test"])} :
       \E db \in {View(c)} :
           Execute(c,
               CASE call.pc = "test" ->
                       Statement("select", None,
                              IF db.testExists
                              THEN [call EXCEPT !.pc = "answer_keys"]
                              ELSE Done(call.op, Ok("error"), "test_not_found"))
                 [] call.pc = "answer_keys" ->
                       Statement("write",
                             [db EXCEPT !.answerKeys = << >>],
                             [call EXCEPT !.pc = "bubble_sheets"])
                 [] call.pc = "bubble_sheets" ->
                       Statement("write",
                             [db EXCEPT !.sheets = << >>],
                             [call EXCEPT !.pc = "bubble_tests"])
                 [] call.pc = "bubble_tests" ->
                       IF foreign_keys /\ db.testExists /\ db.job.status # "NONE"
                       THEN Statement("write",
                                  db, Done(call.op, Raise("IntegrityError"),
                                           "foreign_key"))
                       ELSE Statement("write",
                                  [db EXCEPT !.testExists = FALSE,
                                             !.archived = FALSE],
                                  [call EXCEPT !.pc = "commit"])
                 [] call.pc = "commit" ->
                       Statement("commit", None,
                              Done(call.op, Ok("success"), "")))

\* BubbleTestManager.create_test under server.py create_bubble_test: INSERT
\* INTO bubble_tests, commit.  The row is that of another test, with an id
\* of its own (lines 145-147); the tables of the model are those of the one
\* test it follows and stay as they are.  The commit is that of the
\* connection's transaction, with whatever an earlier call left in it
create_test(c) ==
    /\ conn[c].call.op \in {"idle", "create_test"}
    /\ \E call \in {Running(c, [op |-> "create_test", pc |-> "insert"])} :
       \E db \in {View(c)} :
           Execute(c,
               CASE call.pc = "insert" ->
                       Statement("write", db, [call EXCEPT !.pc = "commit"])
                 [] call.pc = "commit" ->
                       Statement("commit", None, Done(call.op, Ok(0), "")))

\* BubbleTestManager.archive_test under server.py archive_bubble_test:
\* UPDATE bubble_tests SET archived = 1 WHERE id = ? AND archived = 0,
\* commit; the tool returns its error when no row was updated
archive_test(c) ==
    /\ conn[c].call.op \in {"idle", "archive_test"}
    /\ \E call \in {Running(c, [op |-> "archive_test", pc |-> "update",
                                rowcount |-> 0])} :
       \E db \in {View(c)} :
           Execute(c,
               CASE call.pc = "update" ->
                       IF db.testExists /\ ~db.archived
                       THEN Statement("write", [db EXCEPT !.archived = TRUE],
                                      [call EXCEPT !.pc = "commit", !.rowcount = 1])
                       ELSE Statement("write", db, [call EXCEPT !.pc = "commit"])
                 [] call.pc = "commit" ->
                       Statement("commit", None,
                              IF call.rowcount > 0
                              THEN Done(call.op, Ok("success"), "")
                              ELSE Done(call.op, Ok("error"), "no_row")))

\* BubbleTestManager.unarchive_test under server.py unarchive_bubble_test:
\* UPDATE bubble_tests SET archived = 0 WHERE id = ? AND archived = 1,
\* commit; the tool returns its error when no row was updated
unarchive_test(c) ==
    /\ conn[c].call.op \in {"idle", "unarchive_test"}
    /\ \E call \in {Running(c, [op |-> "unarchive_test", pc |-> "update",
                                rowcount |-> 0])} :
       \E db \in {View(c)} :
           Execute(c,
               CASE call.pc = "update" ->
                       IF db.testExists /\ db.archived
                       THEN Statement("write", [db EXCEPT !.archived = FALSE],
                                      [call EXCEPT !.pc = "commit", !.rowcount = 1])
                       ELSE Statement("write", db, [call EXCEPT !.pc = "commit"])
                 [] call.pc = "commit" ->
                       Statement("commit", None,
                              IF call.rowcount > 0
                              THEN Done(call.op, Ok("success"), "")
                              ELSE Done(call.op, Ok("error"), "no_row")))

\* GradingJobManager.create_job (the model follows one job): three SELECTs,
\* INSERT INTO grading_jobs, which the foreign key on test_id refuses for a
\* test that is gone, commit
create_job(c) ==
    /\ conn[c].call.op \in {"idle", "create_job"}
    /\ conn[c].call = Idle =>
           /\ InFlight("create_job") = 0
           /\ \A d \in Connections : View(d).job.status = "NONE"
    /\ \E call \in {Running(c, [op |-> "create_job", pc |-> "test"])} :
       \E db \in {View(c)} :
           Execute(c,
               CASE call.pc = "test" ->
                       Statement("select", None,
                              IF db.testExists THEN [call EXCEPT !.pc = "sheet"]
                              ELSE Rejected(call.op, "test_not_found"))
                 [] call.pc = "sheet" ->
                       Statement("select", None,
                              IF db.sheets # << >> THEN [call EXCEPT !.pc = "key"]
                              ELSE Rejected(call.op, "no_layout"))
                 [] call.pc = "key" ->
                       Statement("select", None,
                              IF db.answerKeys # << >>
                              THEN [call EXCEPT !.pc = "insert"]
                              ELSE Rejected(call.op, "no_answer_key"))
                 [] call.pc = "insert" ->
                       IF foreign_keys /\ ~db.testExists
                       THEN Statement("write",
                                  db, Done(call.op, Raise("IntegrityError"),
                                           "foreign_key"))
                       ELSE Statement("write",
                                  [db EXCEPT !.job =
                                      [NoJob EXCEPT !.status = "CREATED"]],
                                  [call EXCEPT !.pc = "commit"])
                 [] call.pc = "commit" -> Statement("commit", None,
                                                 Done(call.op, Ok(0), "")))

\* count_pdf_pages
count_pdf_pages(pdf_bytes) ==
    IF pdf_bytes.readable THEN Ok(Len(pdf_bytes.pages)) ELSE Raise("PDFPageCountError")

\* the statuses upload_scans, process_scans and grade_job accept
\* (lines 125, 178, 300)
UploadStatusesWithScanned == {"CREATED", "UPLOADED", "SCANNED"}

UploadStatuses == {"CREATED", "UPLOADED"}

ProcessStatuses == {"UPLOADED", "SCANNING"}

GradeStatusesWithError == {"SCANNED", "GRADING", "ERROR"}

GradeStatuses == {"SCANNED", "GRADING"}

\* GradingJobManager.upload_scans: SELECT status (line 118), the pages are
\* counted, UPDATE grading_jobs (line 137), commit
upload_scans(c, pdf_bytes) ==
    /\ conn[c].call.op \in {"idle", "upload_scans"}
    /\ \E call \in {Running(c, [op |-> "upload_scans", pc |-> "job",
                                pdf_bytes |-> pdf_bytes])} :
       \E db \in {View(c)} :
       \E num_pages \in {count_pdf_pages(call.pdf_bytes)} :
           /\ call.pdf_bytes = pdf_bytes
           /\ Execute(c,
               CASE call.pc = "job" ->
                       Statement("select", None,
                              IF db.job.status = "NONE"
                              THEN Rejected(call.op, "job_not_found")
                              ELSE IF db.job.status \notin UploadStatuses
                              THEN Rejected(call.op, "status")
                              ELSE IF num_pages.raised
                              THEN Rejected(call.op, "read_pdf")
                              ELSE [call EXCEPT !.pc = "update"])
                 [] call.pc = "update" ->
                       Statement("write",
                             [db EXCEPT !.job.scan_pdf = call.pdf_bytes.pages,
                                        !.job.num_pages = num_pages.value,
                                        !.job.status = "UPLOADED"],
                             [call EXCEPT !.pc = "commit"])
                 [] call.pc = "commit" ->
                       Statement("commit", None,
                              Done(call.op, Ok([num_pages |-> num_pages.value]), "")))

\* json.loads(json.dumps(result.answers)): the int keys become strings
answers_json(answers) ==
    [i \in 1..Len(answers) |->
        [key |-> IntToStr(answers[i].key), value |-> answers[i].value]]

\* The text of the scan_warnings column is the JSON arrays written into it,
\* one after the other: none for NULL, one for the text json.dumps gives.
\* json.dumps(warnings) if warnings else None (line 238)
json_dumps(warnings) == IF warnings = << >> THEN << >> ELSE << warnings >>

\* json.loads of a column that is not NULL (get_responses, line 517): the
\* text has to be one JSON value
json_loads(column) ==
    IF Len(column) = 1 THEN Ok(column[1]) ELSE Raise("JSONDecodeError")

ScannedRowAlwaysOk(result) ==
    [page_number |-> result.page_number,
     student_id |-> result.student_id,
     answers |-> answers_json(result.answers),
     score |-> None,
     percent_grade |-> None,
     scan_status |-> "OK",
     scan_warnings |-> json_dumps(result.warnings)]

\* the row process_scans inserts for a page that was scanned (lines 220-240)
ScannedRow(result) ==
    [page_number |-> result.page_number,
     student_id |-> result.student_id,
     answers |-> answers_json(result.answers),
     score |-> None,
     percent_grade |-> None,
     scan_status |-> IF result.student_id # ERROR_ID THEN "OK" ELSE "ERROR",
     scan_warnings |-> json_dumps(result.warnings)]

FailedRowWithoutMessage(page_num, exc) ==
    [page_number |-> page_num,
     student_id |-> ERROR_ID,
     answers |-> << >>,
     score |-> None,
     percent_grade |-> None,
     scan_status |-> "ERROR",
     scan_warnings |-> << >>]

\* the row process_scans inserts for a page whose scan raised (lines
\* 241-250); an exception stands for its message str(e)
FailedRow(page_num, exc) ==
    [page_number |-> page_num,
     student_id |-> ERROR_ID,
     answers |-> << >>,
     score |-> None,
     percent_grade |-> None,
     scan_status |-> "ERROR",
     scan_warnings |-> json_dumps(<< Warning(exc, None) >>)]

\* INSERT INTO student_responses: the row gets the next id
InsertResponse(db, row) ==
    [db EXCEPT !.responses = Append(@, [id |-> db.sqlite_sequence + 1] @@ row),
               !.sqlite_sequence = @ + 1]

ScanPageUncounted(call) ==
    IF call.page_num = Len(call.scan_pdf) THEN [call EXCEPT !.pc = "scanned"]
    ELSE IF ~call.scan_pdf[call.page_num + 1].renders
    THEN [call EXCEPT !.pc = "error", !.exc = "RenderError"]
    ELSE CHOOSE next \in
             { IF result.raised
               THEN [call EXCEPT !.pc = "insert_error",
                                 !.page_num = @ + 1,
                                 !.exc = result.exc]
               ELSE [call EXCEPT !.pc = "insert",
                                 !.page_num = @ + 1,
                                 !.num_students =
                                     IF result.value.student_id = ERROR_ID
                                     THEN @ ELSE @ + 1,
                                 !.num_errors =
                                     IF result.value.student_id = ERROR_ID
                                     THEN @ + 1 ELSE @] :
                   result \in {scan_image(call.page_num + 1,
                                          call.scan_pdf[call.page_num + 1],
                                          load_layout_guide(call.layout).value)} } : TRUE

\* process_scans from the top of its loop over pdf_bytes_to_images to its
\* next statement (lines 217-224, 241-242, 252): the INSERT of the row of
\* the next page, scanned or failed, or the UPDATE after the last page; a
\* page that cannot be rendered makes the iterator raise
ScanPage(call) ==
    IF call.page_num = Len(call.scan_pdf) THEN [call EXCEPT !.pc = "scanned"]
    ELSE IF ~call.scan_pdf[call.page_num + 1].renders
    THEN [call EXCEPT !.pc = "error", !.exc = "RenderError"]
    ELSE CHOOSE next \in
             { IF result.raised
               THEN [call EXCEPT !.pc = "insert_error",
                                 !.page_num = @ + 1,
                                 !.num_errors = @ + 1,
                                 !.exc = result.exc]
               ELSE [call EXCEPT !.pc = "insert",
                                 !.page_num = @ + 1,
                                 !.num_students =
                                     IF result.value.student_id = ERROR_ID
                                     THEN @ ELSE @ + 1,
                                 !.num_errors =
                                     IF result.value.student_id = ERROR_ID
                                     THEN @ + 1 ELSE @] :
                   result \in {scan_image(call.page_num + 1,
                                          call.scan_pdf[call.page_num + 1],
                                          load_layout_guide(call.layout).value)} } : TRUE

\* GradingJobManager.process_scans: two SELECTs; the job is marked SCANNING
\* and committed; the rows of the job are deleted and committed;
\* BubbleSheetScanner(layout) can raise, outside the try; a row is inserted
\* for each page, and when that INSERT is refused a row for the error is;
\* the job is marked SCANNED and committed with its rows.  What is raised
\* inside the try marks the job ERROR, which is committed.  The model keeps
\* to MaxRows ids.
process_scans(c) ==
    /\ conn[c].call.op \in {"idle", "process_scans"}
    /\ conn[c].call = Idle =>
           \A d \in Connections :
               View(d).sqlite_sequence
                   + MaxPages * (InFlight("process_scans") + 1) <= MaxRows
    /\ \E call \in {Running(c, [op |-> "process_scans", pc |-> "job",
                                layout |-> None, scan_pdf |-> << >>,
                                page_num |-> 0, num_students |-> 0,
                                num_errors |-> 0, exc |-> ""])} :
       \E db \in {View(c)} :
           Execute(c,
               CASE call.pc = "job" ->
                       Statement("select", None,
                              IF db.job.status = "NONE" \/ ~db.testExists
                              THEN Rejected(call.op, "job_not_found")
                              ELSE IF db.job.status \notin ProcessStatuses
                              THEN Rejected(call.op, "status")
                              ELSE IF db.job.scan_pdf = << >>
                              THEN Rejected(call.op, "no_pdf")
                              ELSE [call EXCEPT !.pc = "sheet",
                                                !.scan_pdf = db.job.scan_pdf])
                 [] call.pc = "sheet" ->
                       Statement("select", None,
                              IF db.sheets = << >>
                              THEN Rejected(call.op, "no_layout")
                              ELSE [call EXCEPT
                                       !.pc = "scanning",
                                       !.layout =
                                           (CHOOSE row \in SeqToSet(db.sheets) :
                                                \A i \in 1..Len(db.sheets) :
                                                    db.sheets[i].created_at
                                                        <= row.created_at).layout_json])
                 [] call.pc = "scanning" ->
                       Statement("write",
                             [db EXCEPT !.job.status = "SCANNING"],
                             [call EXCEPT !.pc = "commit_scanning"])
                 [] call.pc = "commit_scanning" ->
                       Statement("commit", None, [call EXCEPT !.pc = "clear"])
                 [] call.pc = "clear" ->
                       Statement("write",
                             [db EXCEPT !.responses = << >>],
                             [call EXCEPT !.pc = "commit_clear"])
                 [] call.pc = "commit_clear" ->
                       Statement("commit", None,
                              IF load_layout_guide(call.layout).raised
                              THEN Done(call.op,
                                        Raise(load_layout_guide(call.layout).exc),
                                        "scanner")
                              ELSE ScanPage(call))
                 [] call.pc = "insert" ->
                       [Statement("write",
                              InsertResponse(db,
                                  ScannedRow(scan_image(call.page_num,
                                      call.scan_pdf[call.page_num],
                                      load_layout_guide(call.layout).value).value)),
                              ScanPage(call))
                           EXCEPT !.busy = [call EXCEPT !.pc = "insert_error",
                                                        !.num_errors = @ + 1,
                                                        !.exc = "OperationalError"]]
                 [] call.pc = "insert_error" ->
                       [Statement("write",
                              InsertResponse(db, FailedRow(call.page_num, call.exc)),
                              ScanPage(call))
                           EXCEPT !.busy = [call EXCEPT !.pc = "error",
                                                        !.exc = "OperationalError"]]
                 [] call.pc = "scanned" ->
                       [Statement("write",
                              [db EXCEPT !.job.status = "SCANNED",
                                         !.job.num_students = call.num_students],
                              [call EXCEPT !.pc = "commit_scanned"])
                           EXCEPT !.busy = [call EXCEPT !.pc = "error",
                                                        !.exc = "OperationalError"]]
                 [] call.pc = "commit_scanned" ->
                       [Statement("commit", None,
                               Done(call.op,
                                    Ok([num_students |-> call.num_students,
                                        num_errors |-> call.num_errors]), ""))
                           EXCEPT !.busy = [call EXCEPT !.pc = "error",
                                                        !.exc = "OperationalError"]]
                 [] call.pc = "error" ->
                       Statement("write",
                             [db EXCEPT !.job.status = "ERROR",
                                        !.job.error_message = call.exc],
                             [call EXCEPT !.pc = "commit_error"])
                 [] call.pc = "commit_error" ->
                       Statement("commit", None,
                              Rejected(call.op, "scan_failed")))

\* grade_job from the top of its loop over the rows it has read to its next
\* statement (lines 332-351): the UPDATE of the score of the next row, the
\* UPDATE of its warnings when grade_response raised, or the commit after
\* the last row
GradeRow(call) ==
    IF call.k = Len(call.rows) THEN [call EXCEPT !.pc = "commit_scores"]
    ELSE CHOOSE next \in
             { [call EXCEPT !.k = @ + 1,
                            !.pc = IF g.raised THEN "warn" ELSE "score",
                            !.exc = IF g.raised THEN "grading_error" ELSE ""] :
                   g \in {grade_response(BubbleSheetGrader(call.answer_key).value,
                                         call.rows[call.k + 1].answers)} } : TRUE

\* UPDATE student_responses SET score = ?, percent_grade = ? WHERE id = ?
SetScore(db, id, g) ==
    [db EXCEPT !.responses =
        [i \in 1..Len(@) |->
            IF @[i].id # id THEN @[i]
            ELSE [@[i] EXCEPT !.score = g.total_score,
                              !.percent_grade = g.percent_grade]]]

\* UPDATE student_responses SET scan_warnings = COALESCE(scan_warnings,
\* '[]') || json.dumps([f"Grading error: {e}"]) WHERE id = ?
AddWarning(db, id, exc) ==
    [db EXCEPT !.responses =
        [i \in 1..Len(@) |->
            IF @[i].id # id THEN @[i]
            ELSE [@[i] EXCEPT !.scan_warnings =
                     (IF @ = << >> THEN << << >> >> ELSE @)
                         \o << << Warning(exc, None) >> >>]]]

\* GradingJobManager.grade_job: two SELECTs; the job is marked GRADING and
\* committed; BubbleSheetGrader(answer_key) can raise; the rows with
\* scan_status OK are read, and each is updated by its id: its score, or
\* its warnings when grading it or the UPDATE raised; commit; the graded
\* rows are read again, their gradebook replaces the job's, the job is
\* marked COMPLETED, commit; get_stats runs after it.  The model keeps to
\* MaxArrays JSON arrays in a scan_warnings column.
grade_job(c) ==
    /\ conn[c].call.op \in {"idle", "grade_job"}
    /\ conn[c].call = Idle =>
           \A d \in Connections :
               \A i \in 1..Len(View(d).responses) :
                   Len(View(d).responses[i].scan_warnings)
                       + InFlight("grade_job") < MaxArrays
    /\ \E call \in {Running(c, [op |-> "grade_job", pc |-> "job",
                                answer_key |-> None, rows |-> << >>, k |-> 0,
                                exc |-> ""])} :
       \E db \in {View(c)} :
           Execute(c,
               CASE call.pc = "job" ->
                       Statement("select", None,
                              IF db.job.status = "NONE"
                              THEN Rejected(call.op, "job_not_found")
                              ELSE IF db.job.status \notin GradeStatuses
                              THEN Rejected(call.op, "status")
                              ELSE [call EXCEPT !.pc = "key"])
                 [] call.pc = "key" ->
                       Statement("select", None,
                              IF db.answerKeys = << >>
                              THEN Rejected(call.op, "no_answer_key")
                              ELSE [call EXCEPT !.pc = "grading",
                                                !.answer_key =
                                                    db.answerKeys[Len(db.answerKeys)]])
                 [] call.pc = "grading" ->
                       Statement("write",
                             [db EXCEPT !.job.status = "GRADING"],
                             [call EXCEPT !.pc = "commit_grading"])
                 [] call.pc = "commit_grading" ->
                       Statement("commit", None,
                              IF BubbleSheetGrader(call.answer_key).raised
                              THEN Done(call.op,
                                        Raise(BubbleSheetGrader(call.answer_key).exc),
                                        "grader")
                              ELSE [call EXCEPT !.pc = "rows"])
                 [] call.pc = "rows" ->
                       Statement("select", None,
                              GradeRow([call EXCEPT !.rows =
                                  SelectSeq(db.responses,
                                            LAMBDA r : r.scan_status = "OK")]))
                 [] call.pc = "score" ->
                       [Statement("write",
                              SetScore(db, call.rows[call.k].id,
                                  grade_response(
                                      BubbleSheetGrader(call.answer_key).value,
                                      call.rows[call.k].answers).value),
                              GradeRow(call))
                           EXCEPT !.busy = [call EXCEPT !.pc = "warn",
                                                        !.exc = "OperationalError"]]
                 [] call.pc = "warn" ->
                       Statement("write",
                             AddWarning(db, call.rows[call.k].id, call.exc),
                             GradeRow(call))
                 [] call.pc = "commit_scores" ->
                       Statement("commit", None, [call EXCEPT !.pc = "graded"])
                 [] call.pc = "graded" ->
                       Statement("select", None,
                              [call EXCEPT !.pc = "drop_report",
                                           !.rows =
                                  SelectSeq(db.responses,
                                            LAMBDA r : r.scan_status = "OK")])
                 [] call.pc = "drop_report" ->
                       Statement("write",
                             [db EXCEPT !.reports =
                                 SelectSeq(@, LAMBDA r : r.report_type # "gradebook")],
                             [call EXCEPT !.pc = "add_report"])
                 [] call.pc = "add_report" ->
                       Statement("write",
                             [db EXCEPT !.reports =
                                 Append(@, [report_type |-> "gradebook",
                                            content |-> generate_gradebook_csv(
                                                BubbleSheetGrader(call.answer_key).value,
                                                call.rows)])],
                             [call EXCEPT !.pc = "completed"])
                 [] call.pc = "completed" ->
                       Statement("write",
                             [db EXCEPT !.job.status = "COMPLETED"],
                             [call EXCEPT !.pc = "commit_completed"])
                 [] call.pc = "commit_completed" ->
                       Statement("commit", None,
                              Done(call.op, get_stats(call.rows), "")))

Next ==
    \/ \E c \in Connections : create_test(c)
    \/ \E c \in Connections : \E layout \in {LayoutStd} :
           /\ conn[c].call = Idle =>
                  \A d \in Connections :
                      Len(View(d).sheets) + InFlight("generate_bubble_sheet")
                          < MaxSharedSheets
           /\ server_generate_bubble_sheet(c, layout)
    \/ \E c \in Connections : \E answers \in {KeyStd} :
           server_set_answer_key(c, answers)
    \/ \E c \in Connections : delete_test(c)
    \/ \E c \in Connections : archive_test(c)
    \/ \E c \in Connections : unarchive_test(c)
    \/ \E c \in Connections : create_job(c)
    \/ \E c \in Connections :
           \E pdf_bytes \in {[readable |-> TRUE,
                               pages |-> << PageClean, PageUnreadable >>]} :
               upload_scans(c, pdf_bytes)
    \/ \E c \in Connections : process_scans(c)
    \/ \E c \in Connections : grade_job(c)
    \/ \E c \in Connections : close(c)

Spec == Init /\ [][Next]_vars

\* the connection of server.py
Server == 1

\* calls made one after the other by one process
NextSerial ==
    \/ create_test(Server)
    \/ \E layout \in Layouts : server_generate_bubble_sheet(Server, layout)
    \/ \E answers \in AnswerKeys : server_set_answer_key(Server, answers)
    \/ delete_test(Server)
    \/ archive_test(Server)
    \/ unarchive_test(Server)
    \/ create_job(Server)
    \/ \E pdf_bytes \in Pdfs : upload_scans(Server, pdf_bytes)
    \/ process_scans(Server)
    \/ grade_job(Server)
    \/ close(Server)

SpecSerial == Init /\ [][NextSerial]_vars

\* ------------------------------------------------------------------------
\* Properties of the job orchestrator
\* ------------------------------------------------------------------------
JobOps == {"upload_scans", "process_scans", "grade_job"}

\* the place of a status on CREATED -> UPLOADED -> SCANNING -> SCANNED ->
\* GRADING -> COMPLETED, ERROR being the end of every path
StageRank(status) ==
    CASE status = "NONE" -> 0
      [] status = "CREATED" -> 1
      [] status = "UPLOADED" -> 2
      [] status = "SCANNING" -> 3
      [] status = "SCANNED" -> 4
      [] status = "GRADING" -> 5
      [] status = "COMPLETED" -> 6
      [] status = "ERROR" -> 7

\* C1: over calls made one after the other, no call moves a job's status
\* back to an earlier stage: every commit of a call keeps the status or
\* advances it along the chain, or moves it to ERROR.
C1_StatusOnlyAdvances ==
    [][StageRank(job'.status) >= StageRank(job.status)]_vars

\* C1 witness: a job went through the whole chain and a repeated call kept
\* it at its stage.
C1_Witness ==
    /\ job.status = "COMPLETED"
    /\ last.op \in JobOps
    /\ last.why = "status"

\* the rows of a job are one per page 1..n, in page order
OneRowPerPage(rows, n) ==
    /\ Len(rows) = n
    /\ \A i \in 1..n : rows[i].page_number = i

\* C2 as stated: a process_scans call that follows a completed process_scans
\* call on the same job (same scan, same layout) is run again, not refused
\* for the status of the job, and its rows replace the rows of the first
\* run.
C2_SecondCallRunsAgain ==
    [][(/\ last.op = "process_scans"
        /\ ~last.result.raised
        /\ last'.op = "process_scans"
        /\ last'.result.raised)
       => last'.why # "status"]_vars

\* C3: a page whose scan raises is recorded as a row with student id ERROR,
\* no answers, scan_status ERROR and the exception's message as its warning;
\* the pages after it are still scanned and the job reaches SCANNED.
C3_PageFailureIsolated ==
    ((\A c \in Connections : conn[c].call = Idle) /\ last.op = "process_scans"
     /\ last.why \in {"", "scan_failed"}) =>
        /\ \A i \in 1..Len(responses) :
               ~job.scan_pdf[i].readable =>
                   /\ responses[i].student_id = ERROR_ID
                   /\ responses[i].answers = << >>
                   /\ responses[i].scan_status = "ERROR"
                   /\ json_loads(responses[i].scan_warnings)
                          = Ok(<< Warning("cv2.error", None) >>)
        /\ (\A i \in 1..Len(job.scan_pdf) : job.scan_pdf[i].renders) =>
               /\ job.status = "SCANNED"
               /\ OneRowPerPage(responses, Len(job.scan_pdf))

\* C3 witness: the first page raised, the second page was scanned normally
\* and the job is SCANNED.
C3_Witness ==
    /\ (\A c \in Connections : conn[c].call = Idle)
    /\ last.op = "process_scans"
    /\ job.status = "SCANNED"
    /\ Len(responses) = 2
    /\ ~job.scan_pdf[1].readable
    /\ json_loads(responses[1].scan_warnings) = Ok(<< Warning("cv2.error", None) >>)
    /\ responses[2].scan_status = "OK"

\* C4 as stated: after an orchestrator call that failed because the scan
\* bytes cannot be read, the layout is missing or the answer key is missing,
\* the job is in ERROR and has an error message.
C4_JobLevelFailureSetsError ==
    (last.op \in JobOps /\ last.why \in {"read_pdf", "no_layout", "no_answer_key"}) =>
        /\ job.status = "ERROR"
        /\ job.error_message # "NULL"

\* C5: ERROR is terminal. A job in ERROR has an error message, and no step
\* changes the job, its rows or its reports; every orchestrator call on it
\* raises.
C5_ErrorIsTerminal ==
    /\ [](job.status = "ERROR" => job.error_message # "NULL")
    /\ [][job.status = "ERROR" =>
             /\ job' = job
             /\ responses' = responses
             /\ reports' = reports
             /\ (last'.op \in JobOps => last'.result.raised)]_vars

\* C5 witness: a call was rejected on a job that is in ERROR, which holds
\* the rows scanned before the failure.
C5_Witness ==
    /\ job.status = "ERROR"
    /\ last.op \in JobOps
    /\ last.why = "status"
    /\ responses # << >>

\* C6: a response whose student id is ERROR has no score and no percent, is
\* not a row of any gradebook, and is counted in the num_errors that
\* process_scans returns.
C6_ErrorIdNeverGraded ==
    /\ \A i \in 1..Len(responses) :
           responses[i].student_id = ERROR_ID =>
               responses[i].score = None /\ responses[i].percent_grade = None
    /\ \A r \in 1..Len(reports) :
           \A k \in 1..Len(reports[r].content.rows) :
               reports[r].content.rows[k].student_id # ERROR_ID
    /\ (last.op = "process_scans" /\ ~last.result.raised) =>
           last.result.value.num_errors =
               Cardinality({i \in 1..Len(responses) :
                               responses[i].student_id = ERROR_ID})

\* C6 witness: a completed job with a page whose id could not be decoded
\* next to a graded page.
C6_Witness ==
    /\ job.status = "COMPLETED"
    /\ Len(reports) = 1
    /\ \E i \in 1..Len(responses) :
           /\ responses[i].student_id = ERROR_ID
           /\ \E w \in 1..Len(json_loads(responses[i].scan_warnings).value) :
                  json_loads(responses[i].scan_warnings).value[w].kind = "id_unresolved"
    /\ \E i \in 1..Len(responses) : responses[i].score # None
    /\ Len(reports[1].content.rows) >= 1

\* C7: after process_scans returns, the job has exactly one row for each
\* page 1..N, num_students + num_errors = N, num_students is the number of
\* rows with scan_status OK and num_errors the number with ERROR.
C7_EveryPageHasARow ==
    (last.op = "process_scans" /\ ~last.result.raised) =>
        /\ OneRowPerPage(responses, job.num_pages)
        /\ last.result.value.num_students + last.result.value.num_errors = job.num_pages
        /\ last.result.value.num_students =
               Cardinality({i \in 1..Len(responses) :
                               responses[i].scan_status = "OK"})
        /\ last.result.value.num_errors =
               Cardinality({i \in 1..Len(responses) :
                               responses[i].scan_status = "ERROR"})
        /\ job.num_students = last.result.value.num_students

\* C7 witness: a two-page scan, one page decoded and one failed.
C7_Witness ==
    /\ last.op = "process_scans"
    /\ ~last.result.raised
    /\ job.num_pages = 2
    /\ last.result.value.num_students = 1
    /\ last.result.value.num_errors = 1

\* ------------------------------------------------------------------------
\* The response decoder on its own: a scanner is built from a layout
\* document and its two decoders are run on the fill scores of one image
\* ------------------------------------------------------------------------
OptionLabels == << "c", "a", "b", "d" >>

\* an id column with the first n bubbles, printed at places 1..n
ColumnA(n, digit_index, digit) ==
    [digit_index |-> digit_index, digit |-> digit,
     bubbles |-> [j \in 1..n |-> Bubble(Digits[j], j)]]

\* a question with the first n options, printed at places 1..n
QuestionA(n) ==
    [number |-> 1, bubbles |-> [j \in 1..n |-> Bubble(OptionLabels[j], j)]]

LayoutDoc(student_id, questions) ==
    [keys |-> {"dimensions", "questions", "student_id"},
     student_id |-> student_id, questions |-> questions]

DecodeLayouts ==
    {LayoutDoc(<< ColumnA(n, 1, None) >>, << QuestionA(n) >>) : n \in 0..MaxBubbles}
    \cup {LayoutDoc(<< >>, << >>)}
    \cup {LayoutDoc(<< ColumnA(MaxBubbles, c[1], c[2]),
                       [digit_index |-> c[3], digit |-> c[4],
                        bubbles |-> << Bubble("0", MaxBubbles + 1),
                                       Bubble("1", MaxBubbles + 2) >>] >>,
                    << QuestionA(MaxBubbles), [number |-> 2, bubbles |-> << >>] >>) :
             c \in {<< 1, None, 2, None >>, << 2, None, 1, None >>,
                    << 0, None, 1, None >>, << None, 2, None, 1 >>,
                    << 1, None, 1, None >>}}
    \cup {LayoutDoc(<< ColumnA(MaxBubbles, 0, None) >>, << QuestionA(MaxBubbles) >>)}

JobIdle ==
    /\ foreign_keys = FALSE
    /\ testExists = TRUE
    /\ testStatus = "CREATED"
    /\ archived = FALSE
    /\ sheets = << >>
    /\ answerKeys = << >>
    /\ job = NoJob
    /\ responses = << >>
    /\ reports = << >>
    /\ sqlite_sequence = 0
    /\ uncommitted = None
    /\ conn = [c \in Connections |-> [tx |-> "none", call |-> Idle]]
    /\ overlaps = 0
    /\ last = Call("create_test", Ok(0), "")

InitDecode ==
    /\ JobIdle
    /\ probe \in {[stage |-> "input", layout |-> l, fill |-> f,
                   guide |-> Raise("pending"), id |-> Raise("pending"),
                   answers |-> Raise("pending")] :
                     l \in DecodeLayouts,
                     f \in {[p \in 1..(MaxBubbles + 2) |->
                                IF p <= MaxBubbles THEN low[p]
                                ELSE IF p = MaxBubbles + 1 THEN g[1] ELSE g[2]] :
                               low \in [1..MaxBubbles -> {3, 8, 20, 21, 34, 35, 60}],
                               g \in {3, 50} \X {3, 50}}}

\* BubbleSheetScanner.__init__
BuildScanner ==
    /\ probe.stage = "input"
    /\ probe' = [probe EXCEPT !.stage = "loaded",
                              !.guide = load_layout_guide(probe.layout)]
    /\ UNCHANGED << foreign_keys, testExists, testStatus, archived, sheets, answerKeys,
                    job, responses, reports, sqlite_sequence, uncommitted,
                    conn, overlaps, last >>

\* the call of _scan_student_id in scan_image
DecodeStudentId ==
    /\ probe.stage = "loaded"
    /\ ~probe.guide.raised
    /\ probe' = [probe EXCEPT !.stage = "id",
                              !.id = scan_student_id(probe.fill, probe.guide.value)]
    /\ UNCHANGED << foreign_keys, testExists, testStatus, archived, sheets, answerKeys,
                    job, responses, reports, sqlite_sequence, uncommitted,
                    conn, overlaps, last >>

\* the call of _scan_answers in scan_image, which is reached only when
\* _scan_student_id returned (an exception of it leaves scan_image)
DecodeAnswers ==
    /\ probe.stage = "id"
    /\ ~probe.id.raised
    /\ probe' = [probe EXCEPT !.stage = "done",
                              !.answers = scan_answers(probe.fill, probe.guide.value)]
    /\ UNCHANGED << foreign_keys, testExists, testStatus, archived, sheets, answerKeys,
                    job, responses, reports, sqlite_sequence, uncommitted,
                    conn, overlaps, last >>

NextDecode == BuildScanner \/ DecodeStudentId \/ DecodeAnswers

SpecDecode == InitDecode /\ [][NextDecode]_vars

\* C8 as stated: for any loaded layout and any fill scores, neither the
\* student-id decoder nor the answer decoder raises.
C8_DecodersNeverRaise ==
    /\ (probe.stage \in {"id", "done"}) => ~probe.id.raised
    /\ (probe.stage = "done") => ~probe.answers.raised

\* ------------------------------------------------------------------------
\* The grading engine on its own: a grader is built from an answer key and
\* grades one response, and the same response with one more option marked
\* ------------------------------------------------------------------------
Options == {"a", "b", "c", "d"}

\* the labels of a set in sorted order
RECURSIVE SortedLabels(_)
SortedLabels(S) ==
    IF S = {} THEN << >>
    ELSE LET m == CHOOSE x \in S : \A y \in S : CharRank(x) <= CharRank(y)
         IN  << m >> \o SortedLabels(S \ {m})

\* " , ".join(labels) with a blank in front
RECURSIVE JoinSpaced(_)
JoinSpaced(labels) ==
    IF labels = << >> THEN << " " >>
    ELSE IF Len(labels) = 1 THEN << " ", labels[1] >>
    ELSE << " ", labels[1], " ", "," >> \o JoinSpaced(Tail(labels))

\* an answer string that names the options of S: as the scanner writes it,
\* in upper case, with blanks around the tokens, or both
AnswerString(S, style) ==
    CASE style = "plain" -> JoinComma(SortedLabels(S))
      [] style = "upper" -> Upper(JoinComma(SortedLabels(S)))
      [] style = "spaced" -> JoinSpaced(SortedLabels(S))
      [] style = "loud" -> Upper(JoinSpaced(SortedLabels(S)))

\* the answers of a response: question 1 with the options of S marked,
\* and question 2 when the response has it
ResponseAnswers(S, style, second) ==
    << [key |-> << "1" >>, value |-> AnswerString(S, style)] >>
    \o (IF second THEN << [key |-> << "2" >>, value |-> << "b" >>] >> ELSE << >>)

\* the keys and responses: question 1 with the options of C correct, worth
\* p, alone, after a "q1" of 2 points that it replaces, or before a
\* question 2
GradeInputs ==
    {[correct |-> C, selected |-> S, points |-> p,
      answer_key |-> (IF k2 = "again"
                      THEN << KeyItem(<< "q", "1" >>, AnswerString(C, cs), 2000) >>
                      ELSE << >>)
                     \o << KeyItem(<< "Q", "1" >>, AnswerString(C, cs), p) >>
                     \o (IF k2 = "Q2"
                         THEN << KeyItem(<< "Q", "2" >>, << "b" >>, 2000) >>
                         ELSE << >>),
      style |-> ss, second |-> a2,
      answers |-> ResponseAnswers(S, ss, a2)] :
        C \in SUBSET Options, S \in SUBSET Options, p \in {0, 6, 10, 1000, 1005, 4000, -2000},
        cs \in {"plain", "loud"}, ss \in {"plain", "upper"},
        k2 \in {"none", "Q2", "again"}, a2 \in BOOLEAN}

\* the key [{Q1, "b", 1}, {Q2, "a,b,c", 4}] and the response
\* {Q1: "b", Q2: "a,b"}
ExampleInput ==
    [correct |-> {"b"}, selected |-> {"b"}, points |-> 1000,
     answer_key |-> << KeyItem(<< "Q", "1" >>, << "b" >>, 1000),
                       KeyItem(<< "Q", "2" >>, << "a", ",", "b", ",", "c" >>, 4000) >>,
     style |-> "plain", second |-> TRUE,
     answers |-> << [key |-> << "Q", "1" >>, value |-> << "b" >>],
                    [key |-> << "Q", "2" >>, value |-> << "a", ",", "b" >>] >>]

\* the inputs, the key [{Q1, "a,b,c,d", 1}, {Q2, "b", 7}] with the
\* response {1: "a"}: 0.25 of 8 points, which is 3.125 percent, and keys of
\* 0.005 and 0.03, 0.07 or 0.1 points, whose sums as floats are not the
\* floats nearest to 0.035, 0.075 and 0.105
InitGrade ==
    /\ JobIdle
    /\ probe \in {[stage |-> "input", input |-> in, grader |-> Raise("pending"),
                   result |-> Raise("pending"), more |-> << >>] :
                     in \in GradeInputs \cup {ExampleInput}
                         \cup {[correct |-> {"a"}, selected |-> {"a"},
                                 points |-> 1000,
                                 answer_key |->
                                     first \o << KeyItem(<< "Q", "2" >>, blank, 1000) >>,
                                 style |-> "plain", second |-> FALSE,
                                 answers |-> ResponseAnswers({"a"}, "plain", FALSE)] :
                                   blank \in {<< "," >>, << " ", ",", " " >>},
                                   first \in {<< >>,
                                              << KeyItem(<< "Q", "1" >>,
                                                         << "a" >>, 1000) >>}}
                         \cup {[correct |-> Options, selected |-> {"a"},
                                 points |-> 1000,
                                 answer_key |->
                                     << KeyItem(<< "Q", "1" >>,
                                                AnswerString(Options, "plain"), 1000),
                                        KeyItem(<< "Q", "2" >>, << "b" >>, 7000) >>,
                                 style |-> "plain", second |-> FALSE,
                                 answers |-> ResponseAnswers({"a"}, "plain", FALSE)]}
                         \cup {[correct |-> {"a"}, selected |-> {"a"}, points |-> 5,
                                 answer_key |->
                                     << KeyItem(<< "Q", "1" >>, << "a" >>, 5),
                                        KeyItem(<< "Q", "2" >>, << "b" >>, p2) >>,
                                 style |-> "plain", second |-> a2,
                                 answers |-> ResponseAnswers({"a"}, "plain", a2)] :
                                   p2 \in {30, 70, 100}, a2 \in BOOLEAN}}

\* BubbleSheetGrader(answer_key)
BuildGrader ==
    /\ probe.stage = "input"
    /\ probe' = [probe EXCEPT !.stage = "built",
                              !.grader = BubbleSheetGrader(probe.input.answer_key)]
    /\ UNCHANGED << foreign_keys, testExists, testStatus, archived, sheets, answerKeys,
                    job, responses, reports, sqlite_sequence, uncommitted,
                    conn, overlaps, last >>

\* grader.grade_response(answers_json)
GradeResponse ==
    /\ probe.stage = "built"
    /\ ~probe.grader.raised
    /\ probe' = [probe EXCEPT !.stage = "graded",
                              !.result = grade_response(probe.grader.value,
                                                        probe.input.answers)]
    /\ UNCHANGED << foreign_keys, testExists, testStatus, archived, sheets, answerKeys,
                    job, responses, reports, sqlite_sequence, uncommitted,
                    conn, overlaps, last >>

\* grader.grade_response on the response with one more option x marked in
\* question 1, for each option x that is not marked
GradeOneMore ==
    /\ probe.stage = "graded"
    /\ probe' = [probe EXCEPT !.stage = "done",
                    !.more = [x \in Options \ probe.input.selected |->
                                 grade_response(probe.grader.value,
                                     ResponseAnswers(probe.input.selected \cup {x},
                                                     probe.input.style,
                                                     probe.input.second))]]
    /\ UNCHANGED << foreign_keys, testExists, testStatus, archived, sheets, answerKeys,
                    job, responses, reports, sqlite_sequence, uncommitted,
                    conn, overlaps, last >>

NextGrade == BuildGrader \/ GradeResponse \/ GradeOneMore

SpecGrade == InitGrade /\ [][NextGrade]_vars

DictGet(d, k) == d[CHOOSE i \in 1..Len(d) : d[i].key = k].value

\* C9: single-select scoring is all-or-nothing: a question with exactly one
\* correct option is awarded its full points when the selected set equals
\* the correct set, and 0 for any other selection.  The score that enters
\* the total is the points themselves; the per-question report shows it
\* rounded to two decimals.
C9_SingleSelectAllOrNothing ==
    (probe.stage \in {"graded", "done"} /\ Cardinality(probe.input.correct) = 1) =>
        LET awarded == IF probe.input.selected = probe.input.correct
                       THEN probe.input.points ELSE 0
            score == QuestionScore(DictGet(probe.grader.value.question_specs, << "Q", "1" >>),
                                   StudentAnswer(probe.input.answers, << "Q", "1" >>))
        IN  /\ ~probe.result.raised
            /\ score = Ok(awarded)
            /\ DictGet(probe.result.value.per_question, << "Q", "1" >>) = Round2(<< awarded >>)

\* C9 witness: the correct option and one extra were selected in a question
\* worth one point, and the question scored 0.
C9_Witness ==
    /\ probe.stage = "graded"
    /\ probe.input.correct = {"b"}
    /\ probe.input.selected = {"b", "c"}
    /\ probe.input.points = 1000
    /\ DictGet(probe.result.value.per_question, << "Q", "1" >>) = 0

\* C10: multi-select scoring is monotonic: marking one more correct option
\* never lowers the question's score and marking one more incorrect option
\* never raises it.
C10_MultiSelectMonotonic ==
    (probe.stage = "done" /\ Cardinality(probe.input.correct) > 1) =>
        \A x \in Options \ probe.input.selected :
            IF probe.result.raised THEN probe.more[x].raised
            ELSE /\ ~probe.more[x].raised
                 /\ LET before == DictGet(probe.result.value.per_question, << "Q", "1" >>)
                        after == DictGet(probe.more[x].value.per_question, << "Q", "1" >>)
                    IN  /\ x \in probe.input.correct => after >= before
                        /\ x \notin probe.input.correct => after <= before

\* C10 witness: with two of three correct options marked in a question worth
\* four points, the third correct option raises the score and an incorrect
\* option lowers it.
C10_Witness ==
    /\ probe.stage = "done"
    /\ probe.input.correct = {"a", "b", "c"}
    /\ probe.input.selected = {"a", "b"}
    /\ probe.input.points = 4000
    /\ DictGet(probe.result.value.per_question, << "Q", "1" >>) = 2670
    /\ DictGet(probe.more["c"].value.per_question, << "Q", "1" >>) = 4000
    /\ DictGet(probe.more["d"].value.per_question, << "Q", "1" >>) = 1330

\* ------------------------------------------------------------------------
\* Properties of the grading engine
\* ------------------------------------------------------------------------
Graded == probe.stage \in {"graded", "done"}

\* C11 as stated: in every key the grader accepts each question's points are
\* >= 0, and for every response each per-question score lies in [0, points],
\* the total in [0, total points] and the percent in [0, 100].
C11_ScoresWithinBounds ==
    Graded =>
        /\ \A i \in 1..Len(probe.grader.value.question_specs) :
               probe.grader.value.question_specs[i].value.points >= 0
        /\ ~probe.result.raised =>
               /\ \A i \in 1..Len(probe.result.value.per_question) :
                      /\ probe.result.value.per_question[i].value >= 0
                      /\ probe.result.value.per_question[i].value
                             <= DictGet(probe.grader.value.question_specs,
                                        probe.result.value.per_question[i].key).points
               /\ probe.result.value.total_score >= 0
               /\ probe.result.value.total_score <= Sum(probe.grader.value.total_points)
               /\ probe.result.value.percent_grade >= 0
               /\ probe.result.value.percent_grade <= 10000

\* C12 as stated: every multi-select question is scored
\* max(0, (hits - extras) * points / |correct_options|) rounded to 2 decimals
\* (a multiple of 0.01 within half a cent of the quotient floored at zero,
\* either neighbour where the quotient lies exactly between two), and the
\* key [{Q1,b,1},{Q2,"a,b,c",4}] with the response {Q1: b, Q2: "a,b"} gives
\* 1.0, 2.67, total 3.67 and 73.4 percent.
C12_FormulaForEveryQuestion ==
    /\ (Graded /\ Cardinality(probe.input.correct) > 1) =>
           /\ ~probe.result.raised
           /\ \E got \in {DictGet(probe.result.value.per_question, << "Q", "1" >>)} :
              \E n \in {Cardinality(probe.input.correct)} :
              \E credit \in
                  {(Cardinality(probe.input.selected \cap probe.input.correct)
                        - Cardinality(probe.input.selected \ probe.input.correct))
                       * probe.input.points} :
                  IF credit <= 0 THEN got = 0
                  ELSE /\ got % 10 = 0
                       /\ (got - 5) * n <= credit
                       /\ credit <= (got + 5) * n
    /\ (Graded /\ probe.input = ExampleInput) =>
           probe.result = Ok([total_score |-> 3670, percent_grade |-> 7340,
                              per_question |-> << [key |-> << "Q", "1" >>, value |-> 1000],
                                                  [key |-> << "Q", "2" >>, value |-> 2670] >>])

RECURSIVE SumValues(_)
SumValues(d) == IF d = << >> THEN 0 ELSE d[1].value + SumValues(Tail(d))

RECURSIVE SumPoints(_)
SumPoints(specs) ==
    IF specs = << >> THEN 0 ELSE specs[1].value.points + SumPoints(Tail(specs))

Abs(x) == IF x >= 0 THEN x ELSE 0 - x

\* C13 as stated: the total score is the sum of the per-question scores
\* returned, and the percent is 100 x total / (sum of the points of the
\* questions scored) rounded to two decimals, or 0 when that sum is 0
\* (total and points in thousandths, percent in hundredths of a percent).
C13_TotalAndPercent ==
    (Graded /\ ~probe.result.raised) =>
        LET scored == SumPoints(probe.grader.value.question_specs)
        IN  /\ probe.result.value.total_score =
                   SumValues(probe.result.value.per_question)
            /\ IF scored = 0 THEN probe.result.value.percent_grade = 0
               ELSE Abs(2 * probe.result.value.total_score * 10000
                        - 2 * probe.result.value.percent_grade * scored) <= Abs(scored)

\* ------------------------------------------------------------------------
\* The matching of student answers to key questions: a grader is built from
\* a key of one single-select question and grades responses whose keys are
\* spelled in the ways a question can be named
\* ------------------------------------------------------------------------
MaxAnswers == 2

\* the key names its question in one of five ways; a response has up to
\* MaxAnswers items with different keys, each marking option a or option b
InitMatch ==
    LET QuestionNames ==
            {<< "Q", "1" >>, << "q", "1" >>, << "Q", "0", "1" >>, << "Q", "2" >>,
             << "Q", "a" >>}
        AnswerKeyNames ==
            {<< "1" >>, << "0", "1" >>, << "Q", "1" >>, << "q", "1" >>,
             << "Q", "0", "1" >>, << "2" >>, << "Q" >>, << "a" >>, << "q", "a" >>}
        MatchAnswers ==
            {a \in UNION {[1..k -> [key : AnswerKeyNames,
                                    value : {<< "a" >>, << "b" >>}]] :
                             k \in 0..MaxAnswers} :
                \A i \in 1..Len(a) : \A j \in 1..Len(a) : i # j => a[i].key # a[j].key}
    IN  /\ JobIdle
        /\ probe \in {[stage |-> "input",
                       input |-> [question |-> q,
                                  answer_key |-> << KeyItem(q, << "a" >>, 1000) >>,
                                  answers |-> a],
                       grader |-> Raise("pending"), result |-> Raise("pending"),
                       more |-> << >>, csv |-> << >>] :
                         q \in QuestionNames, a \in MatchAnswers}

\* grader.generate_gradebook_csv on the graded response, as grade_job calls
\* it with the row it has just updated
GenerateGradebook ==
    /\ probe.stage = "graded"
    /\ "csv" \in DOMAIN probe
    /\ ~probe.result.raised
    /\ probe' = [probe EXCEPT !.stage = "reported",
                    !.csv = generate_gradebook_csv(probe.grader.value,
                                << [student_id |-> << "0", "1" >>,
                                    answers |-> probe.input.answers,
                                    score |-> probe.result.value.total_score,
                                    percent_grade |-> probe.result.value.percent_grade] >>)]
    /\ UNCHANGED << foreign_keys, testExists, testStatus, archived, sheets, answerKeys,
                    job, responses, reports, sqlite_sequence, uncommitted,
                    conn, overlaps, last >>

NextMatch == BuildGrader \/ GradeResponse \/ GenerateGradebook

SpecMatch == InitMatch /\ [][NextMatch]_vars

\* C14 as stated: each key question is graded on the answer whose key equals
\* the normalized question id if there is one, on the answer with the same
\* numeric suffix only when there is none, and on the empty answer (score 0)
\* when no key matches.
C14_ExactKeyPreferred ==
    (probe.stage = "graded") =>
        LET answers == probe.input.answers
            question_id == Upper(probe.input.question)
            Number(name) == PyInt(LStrip(name, {"Q", "q"}))
            exact == {i \in 1..Len(answers) :
                         (IF StartsWithQ(Upper(answers[i].key)) THEN Upper(answers[i].key)
                          ELSE << "Q" >> \o Upper(answers[i].key)) = question_id}
            numeric == {i \in 1..Len(answers) :
                           /\ ~Number(answers[i].key).raised
                           /\ ~Number(question_id).raised
                           /\ Number(answers[i].key).value = Number(question_id).value}
            First(matching) == answers[CHOOSE i \in matching : \A j \in matching : i <= j].value
            preferred == IF exact # {} THEN First(exact)
                         ELSE IF numeric # {} THEN First(numeric)
                         ELSE << >>
        IN  /\ ~probe.result.raised
            /\ probe.result.value.per_question =
                   << [key |-> question_id,
                       value |-> IF preferred = << "a" >> THEN 1000 ELSE 0] >>

\* ------------------------------------------------------------------------
\* Properties of the construction of the grader
\* ------------------------------------------------------------------------
\* C15: building the grader fails, and yields no grader, exactly when some
\* question's answer string has no token after splitting on commas and
\* trimming; otherwise every question id is stored in upper case, in key
\* order, and the correct options of every question are the trimmed,
\* lower-case tokens of its answer string, of which there is at least one.
C15_GraderConstruction ==
    (probe.stage # "input") =>
        LET key == probe.input.answer_key
            HasNoToken(answer) == \A i \in 1..Len(answer) : answer[i] \in {" ", ","}
            NamedOptions(answer) ==
                {<< c >> : c \in {o \in Options : \E i \in 1..Len(answer) :
                                                     answer[i] \in {o, UpperChar(o)}}}
        IN  /\ probe.grader.raised <=> \E i \in 1..Len(key) : HasNoToken(key[i].answer)
            /\ probe.grader.raised => probe.grader = Raise("ValueError")
            /\ ~probe.grader.raised =>
                   LET grader == probe.grader.value
                   IN  /\ grader.question_order =
                              [i \in 1..Len(key) |-> Upper(key[i].question)]
                       /\ \A i \in 1..Len(key) :
                              \E j \in 1..Len(grader.question_specs) :
                                  LET entry == grader.question_specs[j]
                                  IN  /\ entry.key = Upper(key[i].question)
                                      /\ entry.value.question_id = entry.key
                                      /\ entry.value.correct_options =
                                             NamedOptions(key[i].answer)
                       /\ \A j \in 1..Len(grader.question_specs) :
                              /\ grader.question_specs[j].value.correct_options # {}
                              /\ \E i \in 1..Len(key) :
                                     grader.question_specs[j].key = Upper(key[i].question)

\* a grader built from a key whose first question is "q1" and whose second
\* answer names two options in upper case with blanks
C15_Witness ==
    /\ probe.stage = "built"
    /\ ~probe.grader.raised
    /\ Len(probe.input.answer_key) = 2
    /\ probe.input.answer_key[1].question = << "q", "1" >>
    /\ probe.input.answer_key[2].answer = << " ", "A", " ", ",", " ", "C" >>
    /\ DictGet(probe.grader.value.question_specs, << "Q", "1" >>).correct_options
           = {<< "a" >>, << "c" >>}

\* the largest of a non-empty set of scores
MaxScore(S) == CHOOSE m \in S : \A x \in S : x <= m

\* what the rule for one id column gives on the fills of the column: the
\* digit, and the kind of the warning ("" for none)
ColumnRule(fill, column) ==
    LET n == Len(column.bubbles)
        score == [j \in 1..n |-> fill[column.bubbles[j].at]]
        hits == {j \in 1..n : score[j] >= threshold}
        b == CHOOSE j \in 1..n : \A k \in 1..n : score[k] <= score[j]
        runner_up == IF n > 1 THEN MaxScore({score[k] : k \in (1..n) \ {b}}) ELSE 0
    IN  IF Cardinality(hits) = 1
        THEN [digit |-> column.bubbles[CHOOSE j \in hits : TRUE].label, kind |-> ""]
        ELSE IF score[b] < min_darkness
        THEN [digit |-> "?", kind |-> "id_too_light"]
        ELSE IF runner_up * relative_threshold_den >= score[b] * relative_threshold_num
        THEN [digit |-> "?", kind |-> "id_ambiguous"]
        ELSE [digit |-> column.bubbles[b].label, kind |-> ""]

\* C16: each id column is decoded by the rule: the label of the only bubble
\* at or above the absolute threshold; otherwise "?" with a too-light
\* warning when the best score is below the minimal darkness, else "?" with
\* an ambiguous-fill warning when the runner-up is at or above the best
\* times the relative threshold, else the label of the best bubble without
\* a warning.  The warnings of the columns come in column order, and the
\* digits make up the student id when none of them is "?".
C16_IdColumnRule ==
    (probe.stage \in {"id", "done"} /\ ~probe.id.raised) =>
        LET columns == SortByDigit(probe.guide.value.student_id_columns)
            out == [i \in 1..Len(columns) |->
                       [digit_index |-> columns[i].digit_index,
                        rule |-> ColumnRule(probe.fill, columns[i])]]
            warned == SelectSeq(out, LAMBDA o : o.rule.kind # "")
        IN  /\ SelectSeq(probe.id.value.warnings, LAMBDA w : w.kind # "id_unresolved")
                   = [i \in 1..Len(warned) |->
                         Warning(warned[i].rule.kind, warned[i].digit_index)]
            /\ (out # << >> /\ \A i \in 1..Len(out) : out[i].rule.digit # "?")
                   => probe.id.value.student_id = [i \in 1..Len(out) |-> out[i].rule.digit]
            /\ (\E i \in 1..Len(out) : out[i].rule.digit = "?")
                   => probe.id.value.student_id = ERROR_ID

\* two columns decoded: in the first no bubble reaches the absolute
\* threshold and the best one is accepted, the second is ambiguous
C16_Witness ==
    /\ (probe.stage \in {"id", "done"} /\ ~probe.id.raised)
    /\ Len(probe.guide.value.student_id_columns) = 2
    /\ probe.guide.value.student_id_columns[1].digit_index = 1
    /\ probe.guide.value.student_id_columns[2].digit_index = 2
    /\ probe.fill[1] = 20 /\ probe.fill[2] = 34
    /\ \A p \in 3..MaxBubbles : probe.fill[p] = 3
    /\ probe.fill[MaxBubbles + 1] = 50 /\ probe.fill[MaxBubbles + 2] = 50
    /\ probe.id.value = [student_id |-> ERROR_ID,
                         warnings |-> << Warning("id_ambiguous", 2),
                                         Warning("id_unresolved", None) >>]

\* C17 as stated: for a layout whose id columns (each with bubbles) carry
\* unique digit indexes, the decoded student id is the digits of the columns,
\* by the rule of C16, in ascending order of
\* digit index, and it is "ERROR", with "Student ID unresolved." as the last
\* id warning, exactly when some digit is "?" or there is no id column.
C17_IdInDigitOrder ==
    LET columns == probe.layout.student_id
        n == Len(columns)
        \* the digit index a column carries: "digit_index", or else "digit"
        Carried(i) == IF columns[i].digit_index # None THEN columns[i].digit_index
                      ELSE columns[i].digit
        unique == /\ \A i \in 1..n : Carried(i) # None /\ columns[i].bubbles # << >>
                  /\ \A i \in 1..n : \A j \in 1..n : i # j => Carried(i) # Carried(j)
        at(k) == CHOOSE i \in 1..n :
                     Cardinality({j \in 1..n : Carried(j) < Carried(i)}) = k - 1
    IN
    (probe.stage \in {"id", "done"} /\ unique) =>
        LET digits == [k \in 1..n |-> ColumnRule(probe.fill, columns[at(k)]).digit]
            unresolved == digits = << >> \/ \E k \in 1..Len(digits) : digits[k] = "?"
        IN  /\ ~probe.id.raised
            /\ unresolved =>
                   /\ probe.id.value.student_id = ERROR_ID
                   /\ probe.id.value.warnings # << >>
                   /\ probe.id.value.warnings[Len(probe.id.value.warnings)]
                          = Warning("id_unresolved", None)
            /\ ~unresolved =>
                   /\ probe.id.value.student_id = digits
                   /\ \A w \in 1..Len(probe.id.value.warnings) :
                          probe.id.value.warnings[w].kind # "id_unresolved"

\* the labels of the bubbles of a question whose fill is at or above level
LabelsAtOrAbove(question, fill, level) ==
    {question.bubbles[j].label :
        j \in {k \in 1..Len(question.bubbles) : fill[question.bubbles[k].at] >= level}}

\* C18: the absolute threshold is inclusive: the answer of every question
\* with a bubble at or above the absolute threshold is the sorted,
\* comma-joined labels of all the bubbles at or above it, and the question
\* gets no warning.
C18_AbsoluteThresholdInclusive ==
    (probe.stage = "done" /\ ~probe.answers.raised) =>
        \A q \in 1..Len(probe.guide.value.questions) :
            LET question == probe.guide.value.questions[q]
                marked == LabelsAtOrAbove(question, probe.fill, threshold)
            IN  marked # {} =>
                    /\ DictGet(probe.answers.value.answers, question.number)
                           = JoinComma(SortedLabels(marked))
                    /\ \A w \in 1..Len(probe.answers.value.warnings) :
                           probe.answers.value.warnings[w].ref # question.number

\* a question with one bubble exactly at the threshold, one just below it
\* and one well above: the answer names the first and the last
C18_Witness ==
    /\ (probe.stage = "done" /\ ~probe.answers.raised)
    /\ Len(probe.guide.value.questions) = 1
    /\ Len(probe.guide.value.questions[1].bubbles) = MaxBubbles
    /\ probe.fill[1] = threshold
    /\ probe.fill[2] = threshold - 1
    /\ \A p \in 3..MaxBubbles : probe.fill[p] = 60
    /\ LabelsAtOrAbove(probe.guide.value.questions[1], probe.fill, threshold)
           = {OptionLabels[p] : p \in {1} \cup 3..MaxBubbles}
    /\ DictGet(probe.answers.value.answers, 1)
           = JoinComma(SortedLabels({OptionLabels[p] : p \in {1} \cup 3..MaxBubbles}))

\* C19: in a question without a bubble at or above the absolute threshold,
\* the answer is empty, with a too-light warning, when the best score is
\* below the minimal darkness; otherwise it is the sorted labels of the
\* bubbles at or above cutoff = max(absoluteThreshold x 0.5,
\* best x relativeThreshold), or the label of the (first) best bubble when
\* none reaches the cutoff, with a relative-threshold-fallback warning.
C19_RelativeFallback ==
    (probe.stage = "done" /\ ~probe.answers.raised) =>
        \A q \in 1..Len(probe.guide.value.questions) :
            LET question == probe.guide.value.questions[q]
                n == Len(question.bubbles)
                score == [j \in 1..n |-> probe.fill[question.bubbles[j].at]]
                best == MaxScore({score[j] : j \in 1..n})
                first == CHOOSE j \in 1..n :
                             score[j] = best /\ \A k \in 1..(j - 1) : score[k] # best
                reaching == {question.bubbles[j].label :
                                j \in {k \in 1..n :
                                          /\ 2 * score[k] >= threshold
                                          /\ relative_threshold_den * score[k]
                                                 >= relative_threshold_num * best}}
                answer == DictGet(probe.answers.value.answers, question.number)
                warned == SelectSeq(probe.answers.value.warnings,
                                    LAMBDA w : w.ref = question.number)
            IN  LabelsAtOrAbove(question, probe.fill, threshold) = {} =>
                    IF best < min_darkness
                    THEN /\ answer = << >>
                         /\ warned = << Warning("q_too_light", question.number) >>
                    ELSE /\ answer = IF reaching = {}
                                     THEN << question.bubbles[first].label >>
                                     ELSE JoinComma(SortedLabels(reaching))
                         /\ warned = << Warning("q_fallback", question.number) >>

\* a question whose best bubble is just under the absolute threshold: the
\* bubbles at or above the best times the relative threshold are selected
C19_Witness ==
    /\ (probe.stage = "done" /\ ~probe.answers.raised)
    /\ Len(probe.guide.value.questions) = 1
    /\ Len(probe.guide.value.questions[1].bubbles) = MaxBubbles
    /\ probe.fill[1] = 21 /\ probe.fill[2] = 20
    /\ \A p \in 3..MaxBubbles : probe.fill[p] = threshold - 1
    /\ probe.answers.value.answers =
           << [key |-> 1,
               value |-> JoinComma(SortedLabels({OptionLabels[p] :
                                                    p \in {1} \cup 3..MaxBubbles}))] >>

\* ------------------------------------------------------------------------
\* scanner.py: alignment estimator.  A point is << x, y >>.  A layout is
\* [width, height, alignment_markers, margin], a marker being [x, y, size];
\* an image is [w, h, markers, guided, corners]: its size, the centres the
\* direct marker detection finds in it, the centres the guided search finds
\* in it, and the corners of the page border found in it (<< >> for None).
\* ------------------------------------------------------------------------
\* np.argmin(f), np.argmax(f): the first index of the least, largest value
ArgMin(f) ==
    CHOOSE i \in 1..Len(f) :
        /\ \A j \in 1..Len(f) : f[i] <= f[j]
        /\ \A j \in 1..(i - 1) : f[j] > f[i]

ArgMax(f) ==
    CHOOSE i \in 1..Len(f) :
        /\ \A j \in 1..Len(f) : f[j] <= f[i]
        /\ \A j \in 1..(i - 1) : f[j] < f[i]

\* _order_points_clockwise
order_points_clockwise(points) ==
    LET sum == [i \in 1..Len(points) |-> points[i][1] + points[i][2]]
        diff == [i \in 1..Len(points) |-> points[i][2] - points[i][1]]
    IN  << points[ArgMin(sum)], points[ArgMin(diff)],
           points[ArgMax(sum)], points[ArgMax(diff)] >>

\* _to_top_left_coords
to_top_left_coords(x, y, layout_height) == << x, layout_height - y >>

SpanCoversWidth(points, image) ==
    LET xs == {points[i][1] : i \in 1..Len(points)}
    IN  4 * (MaxScore(xs) - (CHOOSE m \in xs : \A x \in xs : m <= x)) >= image.w

\* span_w >= image_w * 0.25 and span_h >= image_h * 0.25
SpanCovers(points, image) ==
    LET xs == {points[i][1] : i \in 1..Len(points)}
        ys == {points[i][2] : i \in 1..Len(points)}
    IN  /\ 4 * (MaxScore(xs) - (CHOOSE m \in xs : \A x \in xs : m <= x)) >= image.w
        /\ 4 * (MaxScore(ys) - (CHOOSE m \in ys : \A y \in ys : m <= y)) >= image.h

\* close_x, close_y (lines 343-350), all of it in floats:
\* abs(sum_ratio - expected_sum_ratio) <= max(0.02, expected_sum_ratio * 0.6)
\* for sum_ratio = sum_inset / image_dim and expected_sum_ratio =
\* (2.0 * border_offset) / layout_dim, where 2.0 * border_offset is the
\* margin again (halving and doubling a float are exact); 0.6 is the float
\* 0x1.3333333333333p-1.  On the boundary the rounding of the quotients,
\* of the product and of the difference decides
InsetsClose(sum_inset, image_dim, margin, layout_dim) ==
    LET Quotient(a, b) ==
            IF a = 0 THEN Float(0)
            ELSE CHOOSE float \in
                     { [s |-> 1, m |-> f.m, e |-> f.e] :
                         f \in {RoundQuot(Big(a), Big(b), 0)} } : TRUE
        Times06(x) ==
            CHOOSE float \in
                { [s |-> 1, m |-> f.m, e |-> f.e] :
                    f \in {RoundQuot(
                               Trim(BAdd(BAdd(BMulSmall(x.m, 13107, 0),
                                              Shl(BMulSmall(x.m, 26214, 0), 15), 0),
                                         BAdd(Shl(BMulSmall(x.m, 19660, 0), 30),
                                              Shl(BMulSmall(x.m, 153, 0), 45), 0), 0)),
                               << 1 >>, x.e - 53)} } : TRUE
        AtMost(x, y) ==
            \/ x.s = 0
            \/ /\ y.s # 0
               /\ LET low == IF x.e < y.e THEN x.e ELSE y.e
                  IN  BCmp(Shl(x.m, x.e - low), Shl(y.m, y.e - low)) <= 0
    IN  \E sum_ratio \in {Quotient(sum_inset, image_dim)} :
        \E expected_sum_ratio \in {Quotient(margin, layout_dim)} :
        \E scaled \in {Times06(expected_sum_ratio)} :
        \E difference \in {FAdd(sum_ratio, [expected_sum_ratio EXCEPT !.s = -1])} :
            AtMost(difference, IF AtMost(scaled, Float(20)) THEN Float(20) ELSE scaled)

\* the test for the inner border frame (lines 331-352): border_offset > 0
\* and both sums of insets close to the margin
use_border_frame(layout, image, page_ordered) ==
    /\ layout.margin > 0
    /\ LET xs == {page_ordered[i][1] : i \in 1..4}
           ys == {page_ordered[i][2] : i \in 1..4}
           min_x == CHOOSE m \in xs : \A x \in xs : m <= x
           min_y == CHOOSE m \in ys : \A y \in ys : m <= y
           inset_x == MaxScore({0, min_x}) + MaxScore({0, image.w - MaxScore(xs)})
           inset_y == MaxScore({0, min_y}) + MaxScore({0, image.h - MaxScore(ys)})
       IN  /\ InsetsClose(inset_x, image.w, layout.margin, layout.width)
           /\ InsetsClose(inset_y, image.h, layout.margin, layout.height)

\* the corners of the layout page, set in by border_offset, from the top
\* left.  Points of the layout are held in halves of a layout unit, so
\* that a division by 2.0 is exact: border is 2 * border_offset
LayoutCorners(layout, border) ==
    order_points_clockwise(
        << to_top_left_coords(border, 2 * layout.height - border, 2 * layout.height),
           to_top_left_coords(2 * layout.width - border, 2 * layout.height - border,
                              2 * layout.height),
           to_top_left_coords(2 * layout.width - border, border, 2 * layout.height),
           to_top_left_coords(border, border, 2 * layout.height) >>)

proportional_warnings_for_layout(layout_markers, detected_markers) ==
    IF Len(layout_markers) < 4 THEN << "insufficient_markers" >> ELSE << >>

\* the warnings of the proportional mapping (no page border was found)
proportional_warnings(layout_markers, detected_markers) ==
    IF Len(layout_markers) < 4 THEN << "insufficient_markers" >>
    ELSE IF Len(detected_markers) < 4 THEN << "failed_detection" >>
    ELSE << >>

\* _build_layout_to_image_transform: the matrix, the warnings, and the
\* detections that were run, in the order in which they were run.  A matrix
\* of cv2.getPerspectiveTransform(src, dst) is kept as its correspondences
\* (src in halves of a layout unit, dst in pixels), the matrix of the scales
\* image_w / layout.width, image_h / layout.height as the two sizes.
build_layout_to_image_transform(layout, image) ==
    LET layout_markers ==
            SubSeq(layout.alignment_markers, 1,
                   IF Len(layout.alignment_markers) < 4
                   THEN Len(layout.alignment_markers) ELSE 4)
        direct == IF layout_markers # << >> THEN image.markers ELSE << >>
        try_guided == Len(layout_markers) = 4 /\ Len(direct) < 4
        guided_used == try_guided /\ Len(image.guided) = 4
        detected_markers == IF guided_used THEN image.guided ELSE direct
        calls == (IF layout_markers # << >> THEN << "detect_alignment_markers" >>
                                            ELSE << >>)
                 \o (IF try_guided THEN << "detect_guided_alignment_markers" >>
                                   ELSE << >>)
        solvable == Len(layout_markers) = 4 /\ Len(detected_markers) = 4
        use_alignment == solvable /\ SpanCovers(order_points_clockwise(detected_markers),
                                                image)
        warnings == IF use_alignment
                    THEN (IF guided_used THEN << "guided_search" >> ELSE << >>)
                    ELSE (IF solvable THEN << "too_small" >> ELSE << >>)
    IN  IF use_alignment
        THEN [matrix |->
                  [kind |-> "perspective",
                   src |-> order_points_clockwise(
                               [i \in 1..4 |->
                                   to_top_left_coords(
                                       2 * layout_markers[i].x + layout_markers[i].size,
                                       2 * layout_markers[i].y + layout_markers[i].size,
                                       2 * layout.height)]),
                   dst |-> order_points_clockwise(detected_markers)],
              warnings |-> warnings, calls |-> calls]
        ELSE IF image.corners # << >>
        THEN LET page_ordered == order_points_clockwise(image.corners)
                 framed == use_border_frame(layout, image, page_ordered)
             IN  [matrix |->
                      [kind |-> "perspective",
                       src |-> LayoutCorners(layout,
                                             IF framed THEN layout.margin ELSE 0),
                       dst |-> page_ordered],
                  warnings |-> Append(warnings,
                                      IF framed THEN "inner_frame" ELSE "page_border"),
                  calls |-> Append(calls, "detect_page_corners")]
        ELSE [matrix |-> [kind |-> "scale",
                          src |-> << layout.width, layout.height >>,
                          dst |-> << image.w, image.h >>],
              warnings |-> warnings \o proportional_warnings(layout_markers,
                                                             detected_markers),
              calls |-> Append(calls, "detect_page_corners")]

\* ------------------------------------------------------------------------
\* The alignment estimator on its own: a transform is estimated for one
\* layout and one image
\* ------------------------------------------------------------------------
\* Layouts of 200 x 200 units with 0, 3, 4 or 5 markers of size 10 or 5,
\* without a margin and with a margin of 20 or 15.  What a detection finds
\* in an image of 100 x 100 pixels: nothing, three marks, four marks far
\* apart, four marks that span a quarter of the image exactly, a little
\* less, or the width only.  The border found: none, one set in by 5
\* pixels, by 5 pixels at the sides only, by 2 pixels (with the margin of
\* 20 the difference of the ratios is the tolerance 0.06 but for the
\* rounding), or the edge of the image.
InitAlign ==
    LET Marker(x, y, size) == [x |-> x, y |-> y, size |-> size]
        AlignLayouts ==
            {[width |-> 200, height |-> 200, margin |-> m[1],
              alignment_markers |->
                  SubSeq(<< Marker(15, 175, m[2]), Marker(175, 175, m[2]),
                            Marker(175, 15, m[2]), Marker(15, 15, m[2]),
                            Marker(95, 95, m[2]) >>, 1, n)] :
                m \in {<< 0, 10 >>, << 20, 10 >>, << 15, 5 >>}, n \in {0, 3, 4, 5}}
        Detections ==
            {<< >>,
             << << 10, 10 >>, << 90, 10 >>, << 90, 90 >> >>,
             << << 90, 90 >>, << 10, 10 >>, << 10, 90 >>, << 90, 10 >> >>,
             << << 10, 10 >>, << 35, 10 >>, << 35, 35 >>, << 10, 35 >> >>,
             << << 10, 10 >>, << 34, 10 >>, << 34, 34 >>, << 10, 34 >> >>,
             << << 10, 10 >>, << 90, 10 >>, << 90, 30 >>, << 10, 30 >> >>}
        Borders ==
            {<< >>,
             << << 5, 5 >>, << 95, 5 >>, << 95, 95 >>, << 5, 95 >> >>,
             << << 5, 0 >>, << 95, 0 >>, << 95, 100 >>, << 5, 100 >> >>,
             << << 2, 2 >>, << 98, 2 >>, << 98, 98 >>, << 2, 98 >> >>,
             << << 0, 100 >>, << 0, 0 >>, << 100, 0 >>, << 100, 100 >> >>}
    IN  /\ JobIdle
        /\ probe \in {[stage |-> "input", layout |-> l,
                       image |-> [w |-> 100, h |-> 100, markers |-> d,
                                  guided |-> g, corners |-> c],
                       transform |-> Raise("pending")] :
                         l \in AlignLayouts, d \in Detections, g \in Detections,
                         c \in Borders}

\* the call of _build_layout_to_image_transform in scan_image
EstimateTransform ==
    /\ probe.stage = "input"
    /\ probe' = [probe EXCEPT !.stage = "estimated",
                    !.transform = Ok(build_layout_to_image_transform(probe.layout,
                                                                     probe.image))]
    /\ UNCHANGED << foreign_keys, testExists, testStatus, archived, sheets, answerKeys,
                    job, responses, reports, sqlite_sequence, uncommitted,
                    conn, overlaps, last >>

NextAlign == EstimateTransform

SpecAlign == InitAlign /\ [][NextAlign]_vars

\* the tier a result comes from
SolvedFromMarkers(result) ==
    /\ result.matrix.kind = "perspective"
    /\ \A i \in 1..Len(result.warnings) :
           result.warnings[i] \notin {"inner_frame", "page_border"}

Ran(result, detection) == \E i \in 1..Len(result.calls) : result.calls[i] = detection

\* C20: the estimator always returns a transform and tries its tiers in
\* order: the guided search runs only after a direct detection of fewer
\* than 4 markers; the markers are used only when the layout has 4 and 4
\* were detected whose span covers a quarter of the image or more in both
\* axes; the page border is looked for exactly when the markers were not
\* used; and the proportional scale is returned exactly when no border was
\* found then.
C20_TiersInOrder ==
    (probe.stage = "estimated") =>
        LET result == probe.transform.value
            found == result.matrix.dst
        IN  /\ ~probe.transform.raised
            /\ result.matrix.kind \in {"perspective", "scale"}
            /\ \E k \in {0, 1} : \E g \in {0, 1} : \E b \in {0, 1} :
                   result.calls =
                       SubSeq(<< "detect_alignment_markers" >>, 1, k)
                       \o SubSeq(<< "detect_guided_alignment_markers" >>, 1, g)
                       \o SubSeq(<< "detect_page_corners" >>, 1, b)
            /\ Ran(result, "detect_guided_alignment_markers") =>
                   /\ Ran(result, "detect_alignment_markers")
                   /\ Len(probe.image.markers) < 4
            /\ SolvedFromMarkers(result) =>
                   /\ Len(probe.layout.alignment_markers) >= 4
                   /\ IF Ran(result, "detect_guided_alignment_markers")
                      THEN /\ Len(probe.image.guided) = 4
                           /\ found = order_points_clockwise(probe.image.guided)
                      ELSE /\ Len(probe.image.markers) = 4
                           /\ found = order_points_clockwise(probe.image.markers)
                   /\ \E x1, x2, y1, y2 \in 1..4 :
                          /\ 4 * (found[x1][1] - found[x2][1]) >= probe.image.w
                          /\ 4 * (found[y1][2] - found[y2][2]) >= probe.image.h
            /\ Ran(result, "detect_page_corners") <=> ~SolvedFromMarkers(result)
            /\ (result.matrix.kind = "perspective" /\ ~SolvedFromMarkers(result)) <=>
                   (Ran(result, "detect_page_corners") /\ probe.image.corners # << >>)
            /\ result.matrix.kind = "scale" <=>
                   (Ran(result, "detect_page_corners") /\ probe.image.corners = << >>)

\* the direct detection finds three markers, the guided search recovers the
\* four, and the transform is solved from them without looking for a border
C20_Witness ==
    /\ probe.stage = "estimated"
    /\ Len(probe.image.markers) = 3
    /\ Len(probe.image.guided) = 4
    /\ probe.image.corners # << >>
    /\ SolvedFromMarkers(probe.transform.value)
    /\ probe.transform.value.warnings = << "guided_search" >>
    /\ probe.transform.value.calls =
           << "detect_alignment_markers", "detect_guided_alignment_markers" >>

\* C21: the warning list is empty exactly when the transform was solved from
\* four directly detected markers; guided markers, the inner border frame,
\* the page border and the proportional scaling each come with a warning,
\* and a proportional transform comes with a warning that names the
\* proportional mapping.
C21_SilentOnlyOnDirectMarkers ==
    (probe.stage = "estimated") =>
        LET result == probe.transform.value
        IN  /\ result.warnings = << >> <=>
                   /\ SolvedFromMarkers(result)
                   /\ Len(probe.image.markers) = 4
                   /\ result.matrix.dst = order_points_clockwise(probe.image.markers)
            /\ result.matrix.kind = "scale" =>
                   \E i \in 1..Len(result.warnings) :
                       result.warnings[i] \in {"too_small", "insufficient_markers",
                                               "failed_detection"}

\* four layout markers, three detected, none recovered and no border: the
\* scale transform with the warning that detection failed
C21_Witness ==
    /\ probe.stage = "estimated"
    /\ Len(probe.layout.alignment_markers) = 4
    /\ Len(probe.image.markers) = 3
    /\ Len(probe.image.guided) = 3
    /\ probe.image.corners = << >>
    /\ probe.transform.value.matrix.kind = "scale"
    /\ probe.transform.value.warnings = << "failed_detection" >>

\* C25 as stated: whenever the four markers that are validated come from the
\* guided search (the direct detection found fewer than four, the guided
\* search all four), the warnings contain the guided-search warning, whether
\* or not the markers pass the span check.
C25_GuidedSearchWarned ==
    (/\ probe.stage = "estimated"
     /\ Len(probe.layout.alignment_markers) >= 4
     /\ Len(probe.image.markers) < 4
     /\ Len(probe.image.guided) = 4) =>
        \E i \in 1..Len(probe.transform.value.warnings) :
            probe.transform.value.warnings[i] = "guided_search"

\* C22 as stated: the gradebook fills each question column by the matching
\* rule of grading: the cell of every key question is the upper-cased answer
\* that grade_response matched and scored for the question, and it is empty
\* exactly when grading took the answer as missing or empty.
C22_CsvMatchesGrading ==
    (probe.stage = "reported") =>
        \A i \in 1..Len(probe.grader.value.question_order) :
            LET graded == StudentAnswer(probe.input.answers,
                                        probe.grader.value.question_order[i])
                cell == probe.csv.rows[1].answers[i]
            IN  /\ cell = Upper(graded)
                /\ cell = << >> <=> tokenize_answers(graded) = << >>

\* C23 as stated: create_grading_job succeeds only for a test whose status
\* is KEY_ADDED, and a test's status is KEY_ADDED exactly when the test has
\* both a bubble sheet and an answer key.
C23_KeyAddedGatesJobs ==
    /\ (last.op = "create_job" /\ ~last.result.raised) => testStatus = "KEY_ADDED"
    /\ testExists =>
           (testStatus = "KEY_ADDED" <=> (sheets # << >> /\ answerKeys # << >>))

\* C24 as stated: after delete_bubble_test succeeds, no bubble sheet, answer
\* key, grading job, student response or grading report of the deleted test
\* remains stored.
C24_DeleteRemovesEverything ==
    (last.op = "delete_test" /\ last.why = "") =>
        /\ sheets = << >>
        /\ answerKeys = << >>
        /\ job.status = "NONE"
        /\ responses = << >>
        /\ reports = << >>

\* C26 as stated: SCANNING and GRADING are transient.  Whenever a
\* process_scans call that passed its validation returns or raises, the job
\* is SCANNED (returned) or ERROR (raised), never SCANNING; whenever such a
\* grade_job call returns or raises, the job is COMPLETED (returned) or ERROR
\* (raised), never GRADING; a malformed layout or answer key included.
C26_ScanningAndGradingTransient ==
    LET validation == {"job_not_found", "status", "no_pdf", "no_layout",
                       "no_answer_key"}
    IN  /\ ((\A c \in Connections : conn[c].call = Idle) /\ last.op = "process_scans"
             /\ last.why \notin validation) =>
               job.status = IF last.result.raised THEN "ERROR" ELSE "SCANNED"
        /\ ((\A c \in Connections : conn[c].call = Idle) /\ last.op = "grade_job"
             /\ last.why \notin validation) =>
               job.status = IF last.result.raised THEN "ERROR" ELSE "COMPLETED"

\* C27 as stated: in every COMPLETED job each response row with scan_status
\* OK has a score and a percent_grade, the job has exactly one gradebook
\* report, and the grade_job call that completed the job returned its
\* statistics rather than raising.
C27_CompletedJobIsGraded ==
    (job.status = "COMPLETED") =>
        /\ \A i \in 1..Len(responses) :
               (responses[i].scan_status = "OK") =>
                   (responses[i].score # None /\ responses[i].percent_grade # None)
        /\ Len(SelectSeq(reports, LAMBDA r : r.report_type = "gradebook")) = 1
        /\ (last.op = "grade_job" /\ last.why = "") => ~last.result.raised

\* C28 as stated: for every answer key the grader accepts, a key that lists
\* one question twice included, the total possible points are the sum of the
\* points of the questions the grader scores, and a response that answers
\* every key question exactly correctly gets the total points as its score
\* and, the total being positive, 100 percent.
C28_TotalIsSumOfScoredQuestions ==
    (Graded /\ ~probe.result.raised) =>
        LET grader == probe.grader.value
            specs == grader.question_specs
            all_correct ==
                \A i \in 1..Len(specs) :
                    SeqToSet(tokenize_answers(
                        StudentAnswer(probe.input.answers, specs[i].key)))
                    = specs[i].value.correct_options
        IN  /\ Sum(grader.total_points) = SumPoints(specs)
            /\ (all_correct /\ Sum(grader.total_points) > 0) =>
                   /\ probe.result.value.total_score = Sum(grader.total_points)
                   /\ probe.result.value.percent_grade = 10000

\* ------------------------------------------------------------------------
\* The decoding of one id column under the values of the scanner's
\* parameters (BubbleSheetScanner(layout, threshold, relative_threshold);
\* min_darkness is a parameter of _scan_student_id)
\* ------------------------------------------------------------------------

\* a column of up to MaxBubbles bubbles with their measured fills and the
\* values of threshold, relative_threshold (tenths) and min_darkness, the
\* defaults among them
InitDigit ==
    /\ foreign_keys = FALSE
    /\ testExists = TRUE
    /\ testStatus = "CREATED"
    /\ archived = FALSE
    /\ sheets = << >>
    /\ answerKeys = << >>
    /\ job = NoJob
    /\ responses = << >>
    /\ reports = << >>
    /\ sqlite_sequence = 0
    /\ uncommitted = None
    /\ conn = [c \in Connections |-> [tx |-> "none", call |-> Idle]]
    /\ overlaps = 0
    /\ last = Call("create_test", Ok(0), "")
    /\ probe \in
           LET DigitLabels == << "0", "1", "2", "3", "4", "5", "6", "7", "8", "9" >>
           IN
           {[stage |-> "input",
             config |-> [threshold |-> t, relative_num |-> r, min_darkness |-> m],
             column_scores |-> [j \in 1..n |-> [label |-> DigitLabels[j], score |-> f[j]]],
             digit |-> Raise("pending")] :
                t \in {5, threshold}, r \in {0, relative_threshold_num, 10, 12},
                m \in {0, min_darkness},
                n \in 0..MaxBubbles, f \in [1..MaxBubbles -> {0, 6, 20, 35, 60}]}

\* the pass of _scan_student_id over the column
ScanDigit ==
    /\ probe.stage = "input"
    /\ "config" \in DOMAIN probe
    /\ probe' = [probe EXCEPT !.stage = "scanned",
                    !.digit = scan_digit_with(probe.column_scores, 1,
                                              probe.config.threshold,
                                              probe.config.relative_num,
                                              probe.config.min_darkness)]
    /\ UNCHANGED << foreign_keys, testExists, testStatus, archived, sheets, answerKeys,
                    job, responses, reports, sqlite_sequence, uncommitted,
                    conn, overlaps, last >>

NextDigit == ScanDigit

SpecDigit == InitDigit /\ [][NextDigit]_vars

\* C30 as stated: with relativeThreshold <= 1 and minDarkness > 0 a digit is
\* accepted only when its bubble is the one strictly highest-scoring bubble
\* of its column; when two bubbles tie for the highest score the digit is
\* "?"; and the score of every accepted digit is >= minDarkness.
C30_AcceptedDigitUniqueAndDark ==
    (/\ probe.stage = "scanned" /\ ~probe.digit.raised
     /\ probe.config.relative_num <= relative_threshold_den
     /\ probe.config.min_darkness > 0) =>
        LET scores == probe.column_scores
            n == Len(scores)
            digit == probe.digit.value.digit
        IN  /\ digit # "?" =>
                   \E j \in 1..n :
                       /\ scores[j].label = digit
                       /\ \A k \in (1..n) \ {j} : scores[k].score < scores[j].score
                       /\ scores[j].score >= probe.config.min_darkness
            /\ (\E j, k \in 1..n :
                    /\ j # k
                    /\ scores[j].score = scores[k].score
                    /\ \A i \in 1..n : scores[i].score <= scores[j].score)
                   => digit = "?"

\* C30 amended: with relativeThreshold <= 1 and minDarkness > 0 an accepted
\* digit is the one strictly highest-scoring bubble of its column, and its
\* score is >= minDarkness unless it is the only bubble at or above the
\* absolute threshold (then its score is >= that threshold, which may be set
\* below minDarkness); when two bubbles tie for the highest score the digit
\* is "?".
C30_AcceptedDigitUnique ==
    (/\ probe.stage = "scanned" /\ ~probe.digit.raised
     /\ probe.config.relative_num <= relative_threshold_den
     /\ probe.config.min_darkness > 0) =>
        LET scores == probe.column_scores
            n == Len(scores)
            digit == probe.digit.value.digit
        IN  /\ digit # "?" =>
                   \E j \in 1..n :
                       /\ scores[j].label = digit
                       /\ \A k \in (1..n) \ {j} : scores[k].score < scores[j].score
                       /\ \/ scores[j].score >= probe.config.min_darkness
                          \/ /\ scores[j].score >= probe.config.threshold
                             /\ \A k \in (1..n) \ {j} :
                                    scores[k].score < probe.config.threshold
                       /\ probe.config.threshold >= probe.config.min_darkness
                              => scores[j].score >= probe.config.min_darkness
            /\ (\E j, k \in 1..n :
                    /\ j # k
                    /\ scores[j].score = scores[k].score
                    /\ \A i \in 1..n : scores[i].score <= scores[j].score)
                   => digit = "?"

\* two bubbles at the same fill above the absolute threshold under the
\* default values: the digit is "?" with the ambiguous-fill warning
C30_Witness ==
    /\ probe.stage = "scanned"
    /\ probe.config = [threshold |-> threshold,
                       relative_num |-> relative_threshold_num,
                       min_darkness |-> min_darkness]
    /\ probe.column_scores = << [label |-> "0", score |-> 60],
                                [label |-> "1", score |-> 60] >>
    /\ probe.digit = Ok([digit |-> "?",
                         warnings |-> << Warning("id_ambiguous", 1) >>])

\* C29 as stated: when two process_scans calls on one job interleave, each
\* started while the job was UPLOADED or SCANNING, the job ends with at most
\* one response row per page and a num_students equal to its number of rows
\* with scan_status OK.  A process_scans call that returns right after
\* another one has returned was started before that one set the job to
\* SCANNED: the two have interleaved.
C29_InterleavedScansKeepOneRowPerPage ==
    [][(/\ last.op = "process_scans"
        /\ ~last.result.raised
        /\ \E c \in Connections :
               /\ conn[c].call.op = "process_scans"
               /\ conn[c].call.pc = "commit_scanned"
               /\ conn'[c].call = Idle
        /\ ~last'.result.raised)
       => /\ \A i, j \in 1..Len(responses') :
                 responses'[i].page_number = responses'[j].page_number => i = j
          /\ job'.num_students =
                 Len(SelectSeq(responses', LAMBDA r : r.scan_status = "OK"))]_vars

====
